---------------------------- MODULE Spec2Model ----------------------------
(***************************************************************************)
(* The social_media_api project: the follow graph (accounts app), and the  *)
(* posts, their comments, the likes of both and the personalised feed with *)
(* its page-number pagination (posts app).  Every handler is one action;   *)
(* the like and follow handlers are also given statement by statement, as  *)
(* workers serving requests side by side run them.  In the runs that       *)
(* observe the handlers (observe = TRUE) what a handler answers is kept in *)
(* resp, and the rows it started from in before and beforeLikes; the other *)
(* runs keep the database alone, and the answers are read off it with the  *)
(* operators the handlers are made of.  The through tables of the          *)
(* many-to-many fields are bags of rows.                                   *)
(***************************************************************************)
EXTENDS Integers, Sequences, FiniteSets, Bags, TLC

\* ----------------------------------------------------------------- bounds
NumUsers == 2
MaxPosts == 2
MaxFeed  == 12

\* ------------------------------------------------------ program constants
PAGE_SIZE     == 10
MAX_PAGE_SIZE == 100

HTTP_200_OK          == 200
HTTP_201_CREATED     == 201
HTTP_204_NO_CONTENT  == 204
HTTP_400_BAD_REQUEST == 400
HTTP_401_UNAUTHORIZED == 401
HTTP_403_FORBIDDEN   == 403
HTTP_404_NOT_FOUND   == 404
HTTP_500_INTERNAL_SERVER_ERROR == 500

\* timedelta(days=7), in clock readings
TRENDING_DAYS == 7

\* ------------------------------------------------------------- identities
Users    == 1 .. NumUsers          \* the rows of the user table
Anon     == 0                      \* a request with no authenticated user
Actors   == Users \cup {Anon}
UserIds  == 1 .. (NumUsers + 1)    \* ids a URL can carry; the last has no row

VARIABLES
    follows,   \* the bag of rows <<from_user, to_user>> of User.followers: to_user
               \* follows from_user
    posts,     \* rows [id, author, created_at] of Post
    nextId,    \* the next primary key of Post
    now,       \* the clock auto_now_add reads
    resp,      \* the answer of the last handler, with the request it answered
    before,    \* follows as it was when the last handler started
    observe,   \* whether this run keeps resp and before
    postLikes,      \* the bag of rows <<post_id, user_id>> of Post.likes
    commentLikes,   \* the bag of rows <<comment_id, user_id>> of Comment.likes
    comments,       \* rows [id, post, author, parent_comment] of Comment
    nextCommentId,  \* the next primary key of Comment
    beforeLikes,    \* <<postLikes, commentLikes>> as the last like handler, or the
                    \* workers of the run, found them
    reqs,           \* the request of each worker serving one statement by statement
    books,          \* rows [id, title, publication_year, author] of Book (the book API)
    nextBookId      \* the next primary key of Book

vars == <<follows, posts, nextId, now, resp, before, observe,
          postLikes, commentLikes, comments, nextCommentId, beforeLikes, reqs,
          books, nextBookId>>

\* the tables of the book API, a project of its own
bookRows == <<books, nextBookId>>

\* what the handlers of the accounts app never touch
postsAppRows == <<postLikes, commentLikes, comments, nextCommentId, beforeLikes, reqs>>

NoBody == [none |-> TRUE]
NoResp == [op |-> "none", actor |-> Anon, arg |-> 0, status |-> 0, body |-> NoBody]

\* what a handler leaves in resp and before
Record(r) == IF observe THEN r ELSE NoResp

Started == IF observe THEN follows ELSE before

\* ------------------------------------------------------------ User model
\* user.followers.all()
Followers(rows, u) == {r[2] : r \in {x \in BagToSet(rows) : x[1] = u}}

\* user.following.all() reading the side user.followers.all() reads
FollowingSameSide(rows, u) == {r[2] : r \in {x \in BagToSet(rows) : x[1] = u}}

\* user.following.all(): the reverse side of the same table
Following(rows, u) == {r[1] : r \in {x \in BagToSet(rows) : x[2] = u}}

\* self.followers.count(): SELECT COUNT(*) over the rows of the through table
followers_count(rows, u) ==
    BagCardinality([x \in {y \in BagToSet(rows) : y[1] = u} |-> rows[x]])

\* self.following.count()
following_count(rows, u) ==
    BagCardinality([x \in {y \in BagToSet(rows) : y[2] = u} |-> rows[x]])

\* self.following.filter(id=user.id).exists()
is_following(rows, self, user) == user \in Following(rows, self)

\* self.followers.filter(id=user.id).exists()
is_followed_by(rows, self, user) == user \in Followers(rows, self)

\* self.following.add(user) adding the row of the other direction too
FollowingAddMutual(rows, self, user) ==
    LET one == IF BagIn(<<user, self>>, rows) THEN rows
               ELSE rows (+) SetToBag({<<user, self>>})
    IN  IF BagIn(<<self, user>>, one) THEN one ELSE one (+) SetToBag({<<self, user>>})

\* self.following.add(user) without the unique constraint of the through table
FollowingAddNoUnique(rows, self, user) == rows (+) SetToBag({<<user, self>>})

\* self.following.add(user): the through table of a ManyToManyField is unique
\* on (from_user, to_user), and add() inserts the row unless it is there
FollowingAdd(rows, self, user) ==
    IF BagIn(<<user, self>>, rows) THEN rows ELSE rows (+) SetToBag({<<user, self>>})

\* self.following.remove(user) written as a toggle
FollowingRemoveToggle(rows, self, user) ==
    IF BagIn(<<user, self>>, rows)
    THEN [x \in BagToSet(rows) \ {<<user, self>>} |-> rows[x]]
    ELSE rows (+) SetToBag({<<user, self>>})

\* self.following.remove(user): DELETE of the rows of the pair
FollowingRemove(rows, self, user) == [x \in BagToSet(rows) \ {<<user, self>>} |-> rows[x]]

\* User.follow as it would be without its guard
UserFollowNoGuard(rows, self, user) ==
    [rows |-> FollowingAdd(rows, self, user), ret |-> TRUE]

\* User.follow adding the edge on the wrong side (self.followers.add)
UserFollowReversed(rows, self, user) ==
    IF user # self
    THEN [rows |-> FollowingAdd(rows, user, self), ret |-> TRUE]
    ELSE [rows |-> rows, ret |-> FALSE]

\* User.follow
UserFollow(rows, self, user) ==
    IF user # self
    THEN [rows |-> FollowingAdd(rows, self, user), ret |-> TRUE]
    ELSE [rows |-> rows, ret |-> FALSE]

\* User.unfollow as it would be without its guard
UserUnfollowNoGuard(rows, self, user) ==
    [rows |-> FollowingRemove(rows, self, user), ret |-> TRUE]

\* User.unfollow
UserUnfollow(rows, self, user) ==
    IF user # self
    THEN [rows |-> FollowingRemove(rows, self, user), ret |-> TRUE]
    ELSE [rows |-> rows, ret |-> FALSE]

\* --------------------------------------------------------- accounts views
ErrorBody(msg) == [error |-> msg]

\* the body of a follow answer with the two counts taken of the wrong users
FollowBodySwapped(rows, actor, target, flag) ==
    [following       |-> flag,
     followers_count |-> followers_count(rows, actor),
     following_count |-> following_count(rows, target)]

FollowBody(rows, actor, target, flag) ==
    [following       |-> flag,
     followers_count |-> followers_count(rows, target),
     following_count |-> following_count(rows, actor)]

\* FollowUserView.post without the 'Cannot follow yourself' branch
FollowUserViewPostNoSelfCheck(rows, actor, user_id) ==
    IF user_id \notin Users
    THEN [rows |-> rows, status |-> HTTP_404_NOT_FOUND, body |-> ErrorBody("User not found")]
    ELSE IF is_following(rows, actor, user_id)
    THEN [rows |-> rows, status |-> HTTP_400_BAD_REQUEST,
          body |-> ErrorBody("You are already following this user")]
    ELSE LET new == FollowingAdd(rows, actor, user_id)
         IN  [rows |-> new, status |-> HTTP_200_OK,
              body |-> FollowBody(new, actor, user_id, TRUE)]

\* FollowUserView.post answering the repeated follow without looking at the edge
FollowUserViewPostNoExistsCheck(rows, actor, user_id) ==
    IF user_id \notin Users
    THEN [rows |-> rows, status |-> HTTP_404_NOT_FOUND, body |-> ErrorBody("User not found")]
    ELSE IF user_id = actor
    THEN [rows |-> rows, status |-> HTTP_400_BAD_REQUEST,
          body |-> ErrorBody("Cannot follow yourself")]
    ELSE LET new == FollowingAdd(rows, actor, user_id)
         IN  [rows |-> new, status |-> HTTP_200_OK,
              body |-> FollowBody(new, actor, user_id, TRUE)]

\* FollowUserView.post for an authenticated request.user
FollowUserViewPost(rows, actor, user_id) ==
    IF user_id \notin Users
    THEN [rows |-> rows, status |-> HTTP_404_NOT_FOUND, body |-> ErrorBody("User not found")]
    ELSE IF user_id = actor
    THEN [rows |-> rows, status |-> HTTP_400_BAD_REQUEST,
          body |-> ErrorBody("Cannot follow yourself")]
    ELSE IF is_following(rows, actor, user_id)
    THEN [rows |-> rows, status |-> HTTP_400_BAD_REQUEST,
          body |-> ErrorBody("You are already following this user")]
    ELSE LET new == FollowingAdd(rows, actor, user_id)
         IN  [rows |-> new, status |-> HTTP_200_OK,
              body |-> FollowBody(new, actor, user_id, TRUE)]

\* UnfollowUserView.post for an authenticated request.user
UnfollowUserViewPost(rows, actor, user_id) ==
    IF user_id \notin Users
    THEN [rows |-> rows, status |-> HTTP_404_NOT_FOUND, body |-> ErrorBody("User not found")]
    ELSE IF user_id = actor
    THEN [rows |-> rows, status |-> HTTP_400_BAD_REQUEST,
          body |-> ErrorBody("Cannot unfollow yourself")]
    ELSE IF ~ is_following(rows, actor, user_id)
    THEN [rows |-> rows, status |-> HTTP_400_BAD_REQUEST,
          body |-> ErrorBody("You are not following this user")]
    ELSE LET new == FollowingRemove(rows, actor, user_id)
         IN  [rows |-> new, status |-> HTTP_200_OK,
              body |-> FollowBody(new, actor, user_id, FALSE)]

\* permissions.IsAuthenticated: the status of the refusal depends on the
\* authentication classes of the deployment (401 with a WWW-Authenticate
\* header, 403 without)
DeniedStatuses == {HTTP_401_UNAUTHORIZED, HTTP_403_FORBIDDEN}

\* the refusal of IsAuthenticated answered as a success
DeniedOk(op, arg, st) ==
    Record([op |-> op, actor |-> Anon, arg |-> arg, status |-> HTTP_200_OK,
            body |-> ErrorBody("Authentication credentials were not provided.")])

Denied(op, arg, st) ==
    Record([op |-> op, actor |-> Anon, arg |-> arg, status |-> st,
            body |-> ErrorBody("Authentication credentials were not provided.")])

\* ---------------------------------------------------------------- actions
\* POST follow/<user_id>/
FollowRequest(actor, user_id) ==
    /\ before' = Started /\ observe' = observe
    /\ IF actor = Anon
       THEN /\ \E st \in DeniedStatuses : resp' = Denied("follow", user_id, st)
            /\ follows' = follows
       ELSE LET r == FollowUserViewPost(follows, actor, user_id)
            IN  /\ follows' = r.rows
                /\ resp' = Record([op |-> "follow", actor |-> actor, arg |-> user_id,
                            status |-> r.status, body |-> r.body])
    /\ UNCHANGED <<posts, nextId, now>>
    /\ UNCHANGED bookRows
    /\ UNCHANGED postsAppRows

\* POST to UnfollowUserView
UnfollowRequest(actor, user_id) ==
    /\ before' = Started /\ observe' = observe
    /\ IF actor = Anon
       THEN /\ \E st \in DeniedStatuses : resp' = Denied("unfollow", user_id, st)
            /\ follows' = follows
       ELSE LET r == UnfollowUserViewPost(follows, actor, user_id)
            IN  /\ follows' = r.rows
                /\ resp' = Record([op |-> "unfollow", actor |-> actor, arg |-> user_id,
                            status |-> r.status, body |-> r.body])
    /\ UNCHANGED <<posts, nextId, now>>
    /\ UNCHANGED bookRows
    /\ UNCHANGED postsAppRows

\* a direct call of self.follow(user), as the tests make
FollowCall(self, user) ==
    LET r == UserFollow(follows, self, user)
    IN  /\ before' = Started /\ observe' = observe
        /\ follows' = r.rows
        /\ resp' = Record([op |-> "User.follow", actor |-> self, arg |-> user,
                    status |-> 0, body |-> [ret |-> r.ret]])
        /\ UNCHANGED <<posts, nextId, now>>
        /\ UNCHANGED bookRows
        /\ UNCHANGED postsAppRows

\* a direct call of self.unfollow(user)
UnfollowCall(self, user) ==
    LET r == UserUnfollow(follows, self, user)
    IN  /\ before' = Started /\ observe' = observe
        /\ follows' = r.rows
        /\ resp' = Record([op |-> "User.unfollow", actor |-> self, arg |-> user,
                    status |-> 0, body |-> [ret |-> r.ret]])
        /\ UNCHANGED <<posts, nextId, now>>
        /\ UNCHANGED bookRows
        /\ UNCHANGED postsAppRows

\* UserViewSet.followers for an authenticated request.user: the users of
\* user.followers.all(), in no order the query fixes
UserViewSetFollowers(rows, pk) ==
    IF pk \notin Users
    THEN [status |-> HTTP_404_NOT_FOUND, body |-> ErrorBody("Not found.")]
    ELSE [status |-> HTTP_200_OK, body |-> [users |-> Followers(rows, pk)]]

\* UserViewSet.following for an authenticated request.user
UserViewSetFollowing(rows, pk) ==
    IF pk \notin Users
    THEN [status |-> HTTP_404_NOT_FOUND, body |-> ErrorBody("Not found.")]
    ELSE [status |-> HTTP_200_OK, body |-> [users |-> Following(rows, pk)]]

\* GET users/<pk>/followers/
FollowersList(actor, pk) ==
    /\ before' = Started /\ observe' = observe
    /\ IF actor = Anon
       THEN \E st \in DeniedStatuses : resp' = Denied("users.followers", pk, st)
       ELSE LET r == UserViewSetFollowers(follows, pk)
            IN  resp' = Record([op |-> "users.followers", actor |-> actor, arg |-> pk,
                                status |-> r.status, body |-> r.body])
    /\ UNCHANGED <<follows, posts, nextId, now>>
    /\ UNCHANGED bookRows
    /\ UNCHANGED postsAppRows

\* GET users/<pk>/following/
FollowingList(actor, pk) ==
    /\ before' = Started /\ observe' = observe
    /\ IF actor = Anon
       THEN \E st \in DeniedStatuses : resp' = Denied("users.following", pk, st)
       ELSE LET r == UserViewSetFollowing(follows, pk)
            IN  resp' = Record([op |-> "users.following", actor |-> actor, arg |-> pk,
                                status |-> r.status, body |-> r.body])
    /\ UNCHANGED <<follows, posts, nextId, now>>
    /\ UNCHANGED bookRows
    /\ UNCHANGED postsAppRows

\* the database after the migrations and the users of setUp
EmptyDatabase ==
    /\ follows = EmptyBag
    /\ posts = {}
    /\ nextId = 1
    /\ now = 0
    /\ resp = NoResp
    /\ before = EmptyBag
    /\ postLikes = EmptyBag
    /\ commentLikes = EmptyBag
    /\ comments = {}
    /\ nextCommentId = 1
    /\ beforeLikes = <<EmptyBag, EmptyBag>>
    /\ reqs = <<>>
    /\ books = {}
    /\ nextBookId = 1

Init == EmptyDatabase /\ observe = FALSE

InitObserved == EmptyDatabase /\ observe = TRUE

NextFollow ==
    \/ \E a \in Actors, t \in UserIds : FollowRequest(a, t)
    \/ \E a \in Actors, t \in UserIds : UnfollowRequest(a, t)
    \/ \E a \in Users, t \in Users : FollowCall(a, t)
    \/ \E a \in Users, t \in Users : UnfollowCall(a, t)
    \/ \E a \in Actors, t \in UserIds : FollowersList(a, t)
    \/ \E a \in Actors, t \in UserIds : FollowingList(a, t)

\* the follow graph alone
SpecFollow == InitObserved /\ [][NextFollow]_vars


\* ------------------------------------------------------------- Post model
\* Post.objects.create(author=...): auto_now_add stamps the row with the clock
NewPost(id, author, t) == [id |-> id, author |-> author, created_at |-> t]

\* has_object_permission letting every user write
IsAnyone(p, actor) == TRUE

\* IsAuthorOrReadOnly.has_object_permission for an unsafe method
IsAuthor(p, actor) == p.author = actor

\* permissions.SAFE_METHODS
SAFE_METHODS == {"GET", "HEAD", "OPTIONS"}

\* IsAuthenticatedOrReadOnly.has_permission
IsAuthenticatedOrReadOnly(actor, method) == method \in SAFE_METHODS \/ actor # Anon

\* IsAuthorOrReadOnly.has_object_permission
IsAuthorOrReadOnly(obj, actor, method) == method \in SAFE_METHODS \/ IsAuthor(obj, actor)

\* ------------------------------------------------------------- the feed
\* the feed query selecting the posts of the followed users only
FeedQueryFollowedOnly(rows, ps, u) ==
    {p \in ps : p.author \in Following(rows, u)}

\* the feed query reading the wrong side of the follow table
FeedQueryFollowers(rows, ps, u) ==
    {p \in ps : p.author \in Followers(rows, u) \/ p.author = u}

\* Post.objects.filter(Q(author__in=following_users) | Q(author=request.user))
FeedQuery(rows, ps, u) ==
    {p \in ps : p.author \in Following(rows, u) \/ p.author = u}

\* the explore query leaving the own posts of the user in
ExploreQueryFollowedOut(rows, ps, u) ==
    {p \in ps : p.author \notin Following(rows, u)}

\* Post.objects.exclude(Q(author__in=following_users) | Q(author=request.user))
ExploreQuery(rows, ps, u) ==
    {p \in ps : ~ (p.author \in Following(rows, u) \/ p.author = u)}

\* the rows of a set in any order: what the database may return for rows
\* that ORDER BY does not tell apart
RECURSIVE AnyOrder(_)
AnyOrder(S) ==
    IF S = {} THEN {<< >>}
    ELSE UNION {{<<p>> \o r : r \in AnyOrder(S \ {p})} : p \in S}

\* .order_by('-created_at'): newest first, from clock reading t down; rows of
\* one clock reading come in an order the query does not fix
RECURSIVE OrderBetween(_, _, _)
OrderBetween(S, lo, hi) ==
    IF S = {} THEN {<< >>}
    ELSE IF lo >= hi THEN AnyOrder(S)
    ELSE LET mid   == (lo + hi + 1) \div 2
             newer == {p \in S : p.created_at >= mid}
             older == {p \in S : p.created_at < mid}
         IN  {a \o b : a \in OrderBetween(newer, mid, hi), b \in OrderBetween(older, lo, mid - 1)}

OrderByCreatedAtDesc(S, t) == OrderBetween(S, 0, t)

\* ------------------------------------------------------------- pagination
None == 0   \* a next or previous link that is None

Keep == -1    \* a field the request does not carry

Min(a, b) == IF a < b THEN a ELSE b

Max(a, b) == IF a > b THEN a ELSE b

\* get_page_size without max_page_size
get_page_sizeNoCap(param) == IF param <= 0 THEN PAGE_SIZE ELSE param

\* PageNumberPagination.get_page_size: the page_size query parameter as a
\* positive integer cut off at max_page_size; absent, unparsable, zero or
\* negative (param <= 0 here) falls back to page_size
get_page_size(param) ==
    IF param <= 0 THEN PAGE_SIZE ELSE Min(param, MAX_PAGE_SIZE)

\* Paginator.num_pages with allow_empty_first_page off
num_pagesNoEmptyFirstPage(count, per_page) == (count + per_page - 1) \div per_page

\* Paginator.num_pages: ceil(max(1, count) / per_page)
num_pages(count, per_page) == (Max(1, count) + per_page - 1) \div per_page

\* Paginator.page: object_list[bottom:top]
PageSlice(list, number, per_page) ==
    LET bottom == (number - 1) * per_page
        top    == Min(bottom + per_page, Len(list))
    IN  SubSeq(list, bottom + 1, top)

\* paginate_queryset and PostPagination.get_paginated_response
Paginate(list, page, size) ==
    LET per_page == get_page_size(size)
        count    == Len(list)
        np       == num_pages(count, per_page)
    IN  IF page < 1 \/ page > np
        THEN [status |-> HTTP_404_NOT_FOUND, body |-> ErrorBody("Invalid page.")]
        ELSE [status |-> HTTP_200_OK,
              body |-> [count        |-> count,
                        next         |-> IF page < np THEN page + 1 ELSE None,
                        previous     |-> IF page > 1 THEN page - 1 ELSE None,
                        page_size    |-> PAGE_SIZE,
                        total_pages  |-> np,
                        current_page |-> page,
                        results      |-> PageSlice(list, page, per_page)]]

\* ------------------------------------------------- Post.likes, Comment.likes
\* target.likes.filter(id=user.id).exists()
LikesExists(rows, id, user) == BagIn(<<id, user>>, rows)

\* target.likes.add(user) without the unique constraint of the through table
LikesAddNoUnique(rows, id, user) == rows (+) SetToBag({<<id, user>>})

\* target.likes.add(user): the through table is unique on (target, user), and
\* add() inserts the row unless it is there
LikesAdd(rows, id, user) ==
    IF BagIn(<<id, user>>, rows) THEN rows ELSE rows (+) SetToBag({<<id, user>>})

\* the rows left when the targets in ids are deleted (the through table
\* references its target with ON DELETE CASCADE)
LikesOfOthers(rows, ids) == [x \in {y \in BagToSet(rows) : y[1] \notin ids} |-> rows[x]]

\* target.likes.remove(user) written as target.likes.clear()
LikesRemoveClear(rows, id, user) == LikesOfOthers(rows, {id})

\* target.likes.remove(user): DELETE of the rows of the pair
LikesRemove(rows, id, user) == [x \in BagToSet(rows) \ {<<id, user>>} |-> rows[x]]

\* total_likes: self.likes.count(), SELECT COUNT(*) over the rows of the target
total_likes(rows, id) ==
    BagCardinality([x \in {y \in BagToSet(rows) : y[1] = id} |-> rows[x]])

\* ---------------------------------------------------------- Comment model
\* a Comment row; parent_comment is None for a top-level comment
NewComment(id, post, author, parent_comment) ==
    [id |-> id, post |-> post, author |-> author, parent_comment |-> parent_comment]

\* the comments a deletion takes with it, starting from the set gone:
\* Comment.parent_comment is on_delete=CASCADE
RECURSIVE CascadeComments(_, _)
CascadeComments(cs, gone) ==
    LET more == {c \in cs \ gone : c.parent_comment \in {g.id : g \in gone}}
    IN  IF more = {} THEN gone ELSE CascadeComments(cs, gone \cup more)

\* ------------------------------------------------------- posts app actions
\* POST posts/: PostViewSet.create with PostCreateSerializer and perform_create
CreatePost(actor, valid) ==
    /\ nextId <= MaxPosts
    /\ before' = Started /\ observe' = observe
    /\ IF actor = Anon
       THEN /\ \E st \in DeniedStatuses : resp' = Denied("post.create", 0, st)
            /\ UNCHANGED <<posts, nextId, now>>
       ELSE IF ~ valid
       THEN /\ resp' = Record([op |-> "post.create", actor |-> actor, arg |-> 0,
                        status |-> HTTP_400_BAD_REQUEST,
                        body |-> ErrorBody("Title must be at least 5 characters long")])
            /\ UNCHANGED <<posts, nextId, now>>
       ELSE \E t \in {now, now + 1} :
            /\ now' = t
            /\ posts' = posts \cup {NewPost(nextId, actor, t)}
            /\ nextId' = nextId + 1
            /\ resp' = Record([op |-> "post.create", actor |-> actor, arg |-> nextId,
                        status |-> HTTP_201_CREATED, body |-> NoBody])
    /\ UNCHANGED follows
    /\ UNCHANGED bookRows
    /\ UNCHANGED postsAppRows

\* the answer of check_object_permissions to a refused request
Forbidden == ErrorBody("You do not have permission to perform this action.")

\* the answer of get_object without a row
NotFound == ErrorBody("Not found.")

\* PostViewSet.retrieve on posts/<pk>/ once has_permission let the request in
PostViewSetRetrieve(ps, actor, pk) ==
    LET hit == {p \in ps : p.id = pk}
    IN  IF hit = {}
        THEN [status |-> HTTP_404_NOT_FOUND, body |-> NotFound]
        ELSE IF \E p \in hit : ~ IsAuthorOrReadOnly(p, actor, "GET")
        THEN [status |-> HTTP_403_FORBIDDEN, body |-> Forbidden]
        ELSE [status |-> HTTP_200_OK, body |-> CHOOSE p \in hit : TRUE]

\* PostViewSet.update / partial_update with PostSerializer for request.user =
\* user: author_id (source='author') is a writable field, Keep when a PATCH
\* does not carry it; valid tells whether title and content pass their
\* validators
PostViewSetUpdate(ps, user, pk, author_id, valid) ==
    LET hit == {p \in ps : p.id = pk}
    IN  IF hit = {}
        THEN [ps |-> ps, status |-> HTTP_404_NOT_FOUND, body |-> NotFound]
        ELSE IF \E p \in hit : ~ IsAuthorOrReadOnly(p, user, "PATCH")
        THEN [ps |-> ps, status |-> HTTP_403_FORBIDDEN, body |-> Forbidden]
        ELSE IF ~ valid \/ author_id \notin {Keep} \cup Users
        THEN [ps |-> ps, status |-> HTTP_400_BAD_REQUEST, body |-> ErrorBody("invalid")]
        ELSE LET old == CHOOSE p \in hit : TRUE
                 new == [old EXCEPT !.author = IF author_id = Keep THEN @ ELSE author_id]
             IN  [ps |-> (ps \ hit) \cup {new}, status |-> HTTP_200_OK, body |-> new]

\* PostViewSet.destroy for request.user = user
PostViewSetDestroy(ps, user, pk) ==
    LET hit == {p \in ps : p.id = pk}
    IN  IF hit = {}
        THEN [ps |-> ps, status |-> HTTP_404_NOT_FOUND, body |-> NotFound]
        ELSE IF \E p \in hit : ~ IsAuthorOrReadOnly(p, user, "DELETE")
        THEN [ps |-> ps, status |-> HTTP_403_FORBIDDEN, body |-> Forbidden]
        ELSE [ps |-> ps \ hit, status |-> HTTP_204_NO_CONTENT, body |-> NoBody]

\* DELETE posts/<id>/: PostViewSet.destroy under IsAuthorOrReadOnly; the
\* comments of the post and the like rows go with it (on_delete=CASCADE)
DeletePost(actor, id) ==
    /\ before' = Started /\ observe' = observe
    /\ IF ~ IsAuthenticatedOrReadOnly(actor, "DELETE")
       THEN /\ \E st \in DeniedStatuses : resp' = Denied("post.delete", id, st)
            /\ UNCHANGED <<posts, comments, postLikes, commentLikes>>
       ELSE LET r    == PostViewSetDestroy(posts, actor, id)
                ids  == {p.id : p \in posts \ r.ps}
                gone == CascadeComments(comments, {c \in comments : c.post \in ids})
            IN  /\ resp' = Record([op |-> "post.delete", actor |-> actor, arg |-> id,
                             status |-> r.status, body |-> r.body])
                /\ posts' = r.ps
                /\ comments' = comments \ gone
                /\ postLikes' = LikesOfOthers(postLikes, ids)
                /\ commentLikes' = LikesOfOthers(commentLikes, {c.id : c \in gone})
    /\ UNCHANGED bookRows
    /\ UNCHANGED <<follows, nextId, now, nextCommentId, beforeLikes, reqs>>

\* PUT or PATCH posts/<pk>/
UpdatePost(actor, pk, author_id, valid) ==
    /\ before' = Started /\ observe' = observe
    /\ IF ~ IsAuthenticatedOrReadOnly(actor, "PATCH")
       THEN /\ \E st \in DeniedStatuses : resp' = Denied("post.update", pk, st)
            /\ posts' = posts
       ELSE LET r == PostViewSetUpdate(posts, actor, pk, author_id, valid)
            IN  /\ posts' = r.ps
                /\ resp' = Record([op |-> "post.update", actor |-> actor,
                            arg |-> <<pk, author_id, valid>>,
                            status |-> r.status, body |-> r.body])
    /\ UNCHANGED <<follows, nextId, now>>
    /\ UNCHANGED bookRows
    /\ UNCHANGED postsAppRows

\* GET posts/<pk>/
RetrievePost(actor, pk) ==
    /\ before' = Started /\ observe' = observe
    /\ IF ~ IsAuthenticatedOrReadOnly(actor, "GET")
       THEN \E st \in DeniedStatuses : resp' = Denied("post.retrieve", pk, st)
       ELSE LET r == PostViewSetRetrieve(posts, actor, pk)
            IN  resp' = Record([op |-> "post.retrieve", actor |-> actor, arg |-> pk,
                                status |-> r.status, body |-> r.body])
    /\ UNCHANGED <<follows, posts, nextId, now>>
    /\ UNCHANGED bookRows
    /\ UNCHANGED postsAppRows

\* FeedViewSet.list for an authenticated request.user at clock reading t:
\* the answers the query, in an order the database may return, and the
\* paginator give
FeedViewSetList(rows, ps, t, actor, page, size) ==
    {Paginate(list, page, size) : list \in OrderByCreatedAtDesc(FeedQuery(rows, ps, actor), t)}

\* GET feed/?page=&page_size=
FeedList(actor, page, size) ==
    /\ before' = Started /\ observe' = observe
    /\ IF actor = Anon
       THEN \E st \in DeniedStatuses : resp' = Denied("feed", <<page, size>>, st)
       ELSE \E r \in FeedViewSetList(follows, posts, now, actor, page, size) :
            resp' = Record([op |-> "feed", actor |-> actor, arg |-> <<page, size>>,
                            status |-> r.status, body |-> r.body])
    /\ UNCHANGED <<follows, posts, nextId, now>>
    /\ UNCHANGED bookRows
    /\ UNCHANGED postsAppRows

\* ExploreViewSet.list for an authenticated request.user at clock reading t
ExploreViewSetList(rows, ps, t, actor, page, size) ==
    {Paginate(list, page, size) : list \in OrderByCreatedAtDesc(ExploreQuery(rows, ps, actor), t)}

\* GET explore/?page=&page_size=
ExploreList(actor, page, size) ==
    /\ before' = Started /\ observe' = observe
    /\ IF actor = Anon
       THEN \E st \in DeniedStatuses : resp' = Denied("explore", <<page, size>>, st)
       ELSE \E r \in ExploreViewSetList(follows, posts, now, actor, page, size) :
            resp' = Record([op |-> "explore", actor |-> actor, arg |-> <<page, size>>,
                            status |-> r.status, body |-> r.body])
    /\ UNCHANGED <<follows, posts, nextId, now>>
    /\ UNCHANGED bookRows
    /\ UNCHANGED postsAppRows

\* the page and page_size parameters the requests of Spec carry; page_size 0
\* stands for a request without a usable page_size
Pages == 0 .. (MaxPosts + 1)
Sizes == 0 .. MaxPosts

Next ==
    \/ \E a \in Actors, t \in UserIds : FollowRequest(a, t)
    \/ \E a \in Actors, t \in UserIds : UnfollowRequest(a, t)
    \/ \E a \in Users, t \in Users : FollowCall(a, t)
    \/ \E a \in Users, t \in Users : UnfollowCall(a, t)
    \/ \E a \in Actors, v \in BOOLEAN : CreatePost(a, v)
    \/ \E a \in Actors, i \in 1 .. (MaxPosts + 1) : DeletePost(a, i)
    \/ \E a \in Actors, p \in Pages, s \in Sizes : FeedList(a, p, s)
    \/ \E a \in Actors, p \in Pages : ExploreList(a, p, 0)

\* the follow graph, the posts, the feed and the explore listing
Spec == Init /\ [][Next]_vars

\* a feed of n posts of one user, each stamped by its own clock reading, as
\* tests.py builds it for the pagination test
InitPage ==
    /\ \E n \in (0 .. MaxFeed) \cup {MAX_PAGE_SIZE + 1} :
          /\ posts = {NewPost(i, 1, i) : i \in 1 .. n}
          /\ nextId = n + 1
          /\ now = n
    /\ follows = EmptyBag
    /\ resp = NoResp
    /\ before = EmptyBag
    /\ observe = TRUE
    /\ postLikes = EmptyBag
    /\ commentLikes = EmptyBag
    /\ comments = {}
    /\ nextCommentId = 1
    /\ beforeLikes = <<EmptyBag, EmptyBag>>
    /\ reqs = <<>>
    /\ books = {}
    /\ nextBookId = 1

PagesPage == 0 .. (MaxFeed + 1)
SizesPage == {0, 1, 3, MAX_PAGE_SIZE + 1}

NextPage == \E a \in Actors, p \in PagesPage, s \in SizesPage : FeedList(a, p, s)

\* the pagination of a feed that does not change
SpecPage == InitPage /\ [][NextPage]_vars

\* ------------------------------------------------------ the like handlers

\* the body of a like answer
LikeBody(msg, liked, total) == [message |-> msg, liked |-> liked, total_likes |-> total]

\* the toggle answering the count it read before it wrote
LikeToggleCountFirst(rows, id, user) ==
    LET seen == LikesExists(rows, id, user)
    IN  [rows  |-> IF seen THEN LikesRemove(rows, id, user) ELSE LikesAdd(rows, id, user),
         liked |-> ~ seen,
         total_likes |-> total_likes(rows, id)]

\* the toggle removing with target.likes.clear()
LikeToggleClear(rows, id, user) ==
    LET seen == LikesExists(rows, id, user)
        new  == IF seen THEN LikesOfOthers(rows, {id}) ELSE LikesAdd(rows, id, user)
    IN  [rows |-> new, liked |-> ~ seen, total_likes |-> total_likes(new, id)]

\* the toggle all three like handlers run on the likes of their target:
\* exists(), then remove() or add(), then total_likes
LikeToggle(rows, id, user) ==
    LET seen == LikesExists(rows, id, user)
        new  == IF seen THEN LikesRemove(rows, id, user) ELSE LikesAdd(rows, id, user)
    IN  [rows |-> new, liked |-> ~ seen, total_likes |-> total_likes(new, id)]

\* CommentViewSet.get_queryset for ?parent=: the replies of that comment, and
\* the top-level comments without the parameter
CommentQueryset(cs, parent) == {c \in cs : c.parent_comment = parent}

\* PostViewSet.like for request.user = user
PostViewSetLike(ps, rows, user, pk) ==
    IF pk \notin {q.id : q \in ps}
    THEN [rows |-> rows, status |-> HTTP_404_NOT_FOUND, body |-> ErrorBody("Not found.")]
    ELSE LET t == LikeToggle(rows, pk, user)
         IN  [rows |-> t.rows, status |-> HTTP_200_OK,
              body |-> LikeBody(IF t.liked THEN "Post liked successfully"
                                ELSE "Post unliked successfully", t.liked, t.total_likes)]

\* CommentViewSet.like for request.user = user
CommentViewSetLike(cs, rows, user, pk, parent) ==
    IF pk \notin {c.id : c \in CommentQueryset(cs, parent)}
    THEN [rows |-> rows, status |-> HTTP_404_NOT_FOUND, body |-> ErrorBody("Not found.")]
    ELSE LET t == LikeToggle(rows, pk, user)
         IN  [rows |-> t.rows, status |-> HTTP_200_OK,
              body |-> LikeBody(IF t.liked THEN "Comment liked successfully"
                                ELSE "Comment unliked successfully", t.liked, t.total_likes)]

\* not data.get(key): the request does not carry the integer, or carries 0
Falsy(v) == v \in {Keep, 0}

\* LikeViewSet.create for request.user = user; post_id or comment_id is Keep
\* when the request does not carry it
LikeViewSetCreate(ps, cs, pl, cl, user, post_id, comment_id) ==
    IF Falsy(post_id) /\ Falsy(comment_id)
    THEN [pl |-> pl, cl |-> cl, status |-> HTTP_400_BAD_REQUEST,
          body |-> ErrorBody("Either post_id or comment_id must be provided")]
    ELSE IF ~ Falsy(post_id)
    THEN IF post_id \notin {q.id : q \in ps}
         THEN [pl |-> pl, cl |-> cl, status |-> HTTP_404_NOT_FOUND, body |-> ErrorBody("Not found.")]
         ELSE LET t == LikeToggle(pl, post_id, user)
              IN  [pl |-> t.rows, cl |-> cl, status |-> HTTP_200_OK,
                   body |-> LikeBody(IF t.liked THEN "Post liked successfully"
                                     ELSE "Post unliked successfully", t.liked, t.total_likes)
                            @@ [type |-> "post"]]
    ELSE IF comment_id \notin {c.id : c \in cs}
         THEN [pl |-> pl, cl |-> cl, status |-> HTTP_404_NOT_FOUND, body |-> ErrorBody("Not found.")]
         ELSE LET t == LikeToggle(cl, comment_id, user)
              IN  [pl |-> pl, cl |-> t.rows, status |-> HTTP_200_OK,
                   body |-> LikeBody(IF t.liked THEN "Comment liked successfully"
                                     ELSE "Comment unliked successfully", t.liked, t.total_likes)
                            @@ [type |-> "comment"]]

\* the like tables a like handler starts from, kept by an observed run
StartedLikes == IF observe THEN <<postLikes, commentLikes>> ELSE beforeLikes

\* POST posts/<pk>/like/
PostLike(actor, pk) ==
    /\ before' = Started /\ beforeLikes' = StartedLikes /\ observe' = observe
    /\ IF actor = Anon
       THEN /\ \E st \in DeniedStatuses : resp' = Denied("post.like", pk, st)
            /\ postLikes' = postLikes
       ELSE LET r == PostViewSetLike(posts, postLikes, actor, pk)
            IN  /\ postLikes' = r.rows
                /\ resp' = Record([op |-> "post.like", actor |-> actor, arg |-> pk,
                            status |-> r.status, body |-> r.body])
    /\ UNCHANGED bookRows
    /\ UNCHANGED <<follows, posts, nextId, now, commentLikes, comments, nextCommentId, reqs>>

\* POST comments/<pk>/like/?parent=
CommentLike(actor, pk, parent) ==
    /\ before' = Started /\ beforeLikes' = StartedLikes /\ observe' = observe
    /\ IF actor = Anon
       THEN /\ \E st \in DeniedStatuses : resp' = Denied("comment.like", <<pk, parent>>, st)
            /\ commentLikes' = commentLikes
       ELSE LET r == CommentViewSetLike(comments, commentLikes, actor, pk, parent)
            IN  /\ commentLikes' = r.rows
                /\ resp' = Record([op |-> "comment.like", actor |-> actor, arg |-> <<pk, parent>>,
                            status |-> r.status, body |-> r.body])
    /\ UNCHANGED bookRows
    /\ UNCHANGED <<follows, posts, nextId, now, postLikes, comments, nextCommentId, reqs>>

\* POST likes/ with post_id and comment_id
LikeCreate(actor, post_id, comment_id) ==
    /\ before' = Started /\ beforeLikes' = StartedLikes /\ observe' = observe
    /\ IF actor = Anon
       THEN /\ \E st \in DeniedStatuses :
                  resp' = Denied("likes.create", <<post_id, comment_id>>, st)
            /\ UNCHANGED <<postLikes, commentLikes>>
       ELSE LET r == LikeViewSetCreate(posts, comments, postLikes, commentLikes,
                                       actor, post_id, comment_id)
            IN  /\ postLikes' = r.pl
                /\ commentLikes' = r.cl
                /\ resp' = Record([op |-> "likes.create", actor |-> actor,
                            arg |-> <<post_id, comment_id>>,
                            status |-> r.status, body |-> r.body])
    /\ UNCHANGED bookRows
    /\ UNCHANGED <<follows, posts, nextId, now, comments, nextCommentId, reqs>>

\* one post of user 1 with a comment of user 1 and a reply to it of the last
\* user, nobody liking anything yet
InitLike ==
    /\ posts = {NewPost(1, 1, 0)}
    /\ nextId = 2
    /\ now = 0
    /\ comments = {NewComment(1, 1, 1, None), NewComment(2, 1, NumUsers, 1)}
    /\ nextCommentId = 3
    /\ follows = EmptyBag
    /\ postLikes = EmptyBag
    /\ commentLikes = EmptyBag
    /\ resp = NoResp
    /\ before = EmptyBag
    /\ beforeLikes = <<EmptyBag, EmptyBag>>
    /\ observe = TRUE
    /\ reqs = << >>
    /\ books = {}
    /\ nextBookId = 1

\* the post of InitLike and an id without a row
PostIdsLike == {1, 2}

\* the comments of InitLike and an id without a row
CommentIdsLike == {1, 2, 3}

NextLike ==
    \/ \E a \in Actors, i \in PostIdsLike : PostLike(a, i)
    \/ \E a \in Actors, i \in CommentIdsLike, q \in {None, 1} : CommentLike(a, i, q)
    \/ \E a \in Actors, i \in {Keep} \cup PostIdsLike, j \in {Keep} \cup CommentIdsLike :
          LikeCreate(a, i, j)

\* the like handlers, one request at a time
SpecLike == InitLike /\ [][NextLike]_vars

\* ------------------------------------ like requests served side by side
NumWorkers == 2

Workers == 1 .. NumWorkers

\* a worker that has not received its request
Idle == [pc |-> "idle", op |-> "none", actor |-> Anon, pk |-> 0,
         seen |-> FALSE, n |-> 0, status |-> 0, body |-> NoBody]

\* the worker receives POST posts/<pk>/like/ or POST comments/<pk>/like/:
\* permission check and get_object()
LikeBegin(w, op, actor, pk) ==
    /\ reqs[w].pc = "idle"
    /\ LET found == IF op = "post.like" THEN pk \in {q.id : q \in posts}
                    ELSE pk \in {c.id : c \in CommentQueryset(comments, None)}
           r     == [Idle EXCEPT !.op = op, !.actor = actor, !.pk = pk]
       IN  IF actor = Anon
           THEN \E st \in DeniedStatuses :
                   reqs' = [reqs EXCEPT ![w] = [r EXCEPT !.pc = "done", !.status = st,
                       !.body = ErrorBody("Authentication credentials were not provided.")]]
           ELSE IF ~ found
           THEN reqs' = [reqs EXCEPT ![w] = [r EXCEPT !.pc = "done",
                       !.status = HTTP_404_NOT_FOUND, !.body = ErrorBody("Not found.")]]
           ELSE reqs' = [reqs EXCEPT ![w] = [r EXCEPT !.pc = "exists"]]
    /\ UNCHANGED bookRows
    /\ UNCHANGED <<follows, posts, nextId, now, resp, before, observe,
                   postLikes, commentLikes, comments, nextCommentId, beforeLikes>>

\* the worker runs likes.filter(id=user.id).exists()
LikeExistsStep(w) ==
    /\ reqs[w].pc = "exists"
    /\ reqs[w].op \in {"post.like", "comment.like"}
    /\ LET r    == reqs[w]
           rows == IF r.op = "post.like" THEN postLikes ELSE commentLikes
       IN  reqs' = [reqs EXCEPT ![w] = [r EXCEPT !.pc = "write",
                       !.seen = LikesExists(rows, r.pk, r.actor)]]
    /\ UNCHANGED bookRows
    /\ UNCHANGED <<follows, posts, nextId, now, resp, before, observe,
                   postLikes, commentLikes, comments, nextCommentId, beforeLikes>>

\* the worker runs likes.remove(user) or likes.add(user), as exists() told it
LikeWriteStep(w) ==
    /\ reqs[w].pc = "write"
    /\ reqs[w].op \in {"post.like", "comment.like"}
    /\ LET r      == reqs[w]
           Wr(rows) == IF r.seen THEN LikesRemove(rows, r.pk, r.actor)
                       ELSE LikesAdd(rows, r.pk, r.actor)
       IN  /\ IF r.op = "post.like"
              THEN postLikes' = Wr(postLikes) /\ commentLikes' = commentLikes
              ELSE commentLikes' = Wr(commentLikes) /\ postLikes' = postLikes
           /\ reqs' = [reqs EXCEPT ![w] = [r EXCEPT !.pc = "count"]]
    /\ UNCHANGED bookRows
    /\ UNCHANGED <<follows, posts, nextId, now, resp, before, observe,
                   comments, nextCommentId, beforeLikes>>

\* the worker reads total_likes and answers
LikeCountStep(w) ==
    /\ reqs[w].pc = "count"
    /\ LET r     == reqs[w]
           rows  == IF r.op = "post.like" THEN postLikes ELSE commentLikes
           liked == ~ r.seen
           msg   == IF r.op = "post.like"
                    THEN (IF liked THEN "Post liked successfully" ELSE "Post unliked successfully")
                    ELSE (IF liked THEN "Comment liked successfully"
                          ELSE "Comment unliked successfully")
       IN  reqs' = [reqs EXCEPT ![w] = [r EXCEPT !.pc = "done", !.status = HTTP_200_OK,
                       !.body = LikeBody(msg, liked, total_likes(rows, r.pk))]]
    /\ UNCHANGED bookRows
    /\ UNCHANGED <<follows, posts, nextId, now, resp, before, observe,
                   postLikes, commentLikes, comments, nextCommentId, beforeLikes>>

\* the rows of InitLike, with or without the likes of user 1 on the post and
\* on the comment, and every worker waiting for its request
InitLikeSteps ==
    /\ posts = {NewPost(1, 1, 0)}
    /\ nextId = 2
    /\ now = 0
    /\ comments = {NewComment(1, 1, 1, None), NewComment(2, 1, NumUsers, 1)}
    /\ nextCommentId = 3
    /\ follows = EmptyBag
    /\ \E pl \in SUBSET {<<1, 1>>} : postLikes = SetToBag(pl)
    /\ \E cl \in SUBSET {<<1, 1>>} : commentLikes = SetToBag(cl)
    /\ resp = NoResp
    /\ before = EmptyBag
    /\ beforeLikes = <<postLikes, commentLikes>>
    /\ observe = TRUE
    /\ reqs = [w \in Workers |-> Idle]
    /\ books = {}
    /\ nextBookId = 1

NextLikeSteps ==
    \/ \E w \in Workers, a \in Actors, i \in PostIdsLike : LikeBegin(w, "post.like", a, i)
    \/ \E w \in Workers, a \in Actors, i \in CommentIdsLike : LikeBegin(w, "comment.like", a, i)
    \/ \E w \in Workers : LikeExistsStep(w)
    \/ \E w \in Workers : LikeWriteStep(w)
    \/ \E w \in Workers : LikeCountStep(w)

\* like requests of several workers, their statements interleaved
SpecLikeSteps == InitLikeSteps /\ [][NextLikeSteps]_vars

\* ---------------------------------- follow requests served side by side
\* the worker receives POST follow/<user_id>/ or the unfollow request:
\* permission check, User.objects.get and the check against request.user
FollowBegin(w, op, actor, user_id) ==
    /\ reqs[w].pc = "idle"
    /\ LET r == [Idle EXCEPT !.op = op, !.actor = actor, !.pk = user_id]
           Done(st, msg) ==
               reqs' = [reqs EXCEPT ![w] = [r EXCEPT !.pc = "done", !.status = st,
                                                     !.body = ErrorBody(msg)]]
       IN  IF actor = Anon
           THEN \E st \in DeniedStatuses :
                   Done(st, "Authentication credentials were not provided.")
           ELSE IF user_id \notin Users
           THEN Done(HTTP_404_NOT_FOUND, "User not found")
           ELSE IF user_id = actor
           THEN Done(HTTP_400_BAD_REQUEST,
                     IF op = "follow" THEN "Cannot follow yourself"
                     ELSE "Cannot unfollow yourself")
           ELSE reqs' = [reqs EXCEPT ![w] = [r EXCEPT !.pc = "exists"]]
    /\ UNCHANGED <<follows, posts, nextId, now, resp, before, observe>>
    /\ UNCHANGED bookRows
    /\ UNCHANGED <<postLikes, commentLikes, comments, nextCommentId, beforeLikes>>

\* the worker runs current_user.following.filter(id=...).exists() and answers
\* 400 when the follow finds the row or the unfollow does not
FollowExistsStep(w) ==
    /\ reqs[w].pc = "exists"
    /\ reqs[w].op \in {"follow", "unfollow"}
    /\ LET r    == reqs[w]
           seen == is_following(follows, r.actor, r.pk)
       IN  IF r.op = "follow" /\ seen
           THEN reqs' = [reqs EXCEPT ![w] = [r EXCEPT !.pc = "done", !.seen = seen,
                           !.status = HTTP_400_BAD_REQUEST,
                           !.body = ErrorBody("You are already following this user")]]
           ELSE IF r.op = "unfollow" /\ ~ seen
           THEN reqs' = [reqs EXCEPT ![w] = [r EXCEPT !.pc = "done", !.seen = seen,
                           !.status = HTTP_400_BAD_REQUEST,
                           !.body = ErrorBody("You are not following this user")]]
           ELSE reqs' = [reqs EXCEPT ![w] = [r EXCEPT !.pc = "write", !.seen = seen]]
    /\ UNCHANGED <<follows, posts, nextId, now, resp, before, observe>>
    /\ UNCHANGED bookRows
    /\ UNCHANGED <<postLikes, commentLikes, comments, nextCommentId, beforeLikes>>

\* the worker runs current_user.following.add or .remove
FollowWriteStep(w) ==
    /\ reqs[w].pc = "write"
    /\ reqs[w].op \in {"follow", "unfollow"}
    /\ LET r == reqs[w]
       IN  /\ follows' = IF r.op = "follow" THEN FollowingAdd(follows, r.actor, r.pk)
                         ELSE FollowingRemove(follows, r.actor, r.pk)
           /\ reqs' = [reqs EXCEPT ![w] = [r EXCEPT !.pc = "followers"]]
    /\ UNCHANGED <<posts, nextId, now, resp, before, observe>>
    /\ UNCHANGED bookRows
    /\ UNCHANGED <<postLikes, commentLikes, comments, nextCommentId, beforeLikes>>

\* the worker reads the other user's followers.count() for its answer
FollowFollowersStep(w) ==
    /\ reqs[w].pc = "followers"
    /\ reqs' = [reqs EXCEPT ![w] = [reqs[w] EXCEPT !.pc = "following",
                    !.n = followers_count(follows, reqs[w].pk)]]
    /\ UNCHANGED <<follows, posts, nextId, now, resp, before, observe>>
    /\ UNCHANGED bookRows
    /\ UNCHANGED <<postLikes, commentLikes, comments, nextCommentId, beforeLikes>>

\* the worker reads current_user.following.count() and answers
FollowFollowingStep(w) ==
    /\ reqs[w].pc = "following"
    /\ LET r == reqs[w]
       IN  reqs' = [reqs EXCEPT ![w] = [r EXCEPT !.pc = "done", !.status = HTTP_200_OK,
                       !.body = [FollowBody(follows, r.actor, r.pk, r.op = "follow")
                                    EXCEPT !.followers_count = r.n]]]
    /\ UNCHANGED <<follows, posts, nextId, now, resp, before, observe>>
    /\ UNCHANGED bookRows
    /\ UNCHANGED <<postLikes, commentLikes, comments, nextCommentId, beforeLikes>>

\* the users of setUp, nobody following anybody, and every worker waiting for
\* its request
InitFollowSteps ==
    /\ follows = EmptyBag
    /\ before = EmptyBag
    /\ posts = {}
    /\ nextId = 1
    /\ now = 0
    /\ resp = NoResp
    /\ postLikes = EmptyBag
    /\ commentLikes = EmptyBag
    /\ comments = {}
    /\ nextCommentId = 1
    /\ beforeLikes = <<EmptyBag, EmptyBag>>
    /\ observe = TRUE
    /\ reqs = [w \in Workers |-> Idle]
    /\ books = {}
    /\ nextBookId = 1

NextFollowSteps ==
    \/ \E w \in Workers, a \in Actors, t \in UserIds : FollowBegin(w, "follow", a, t)
    \/ \E w \in Workers, a \in Actors, t \in UserIds : FollowBegin(w, "unfollow", a, t)
    \/ \E w \in Workers : FollowExistsStep(w)
    \/ \E w \in Workers : FollowWriteStep(w)
    \/ \E w \in Workers : FollowFollowersStep(w)
    \/ \E w \in Workers : FollowFollowingStep(w)

\* follow and unfollow requests of several workers, their statements interleaved
SpecFollowSteps == InitFollowSteps /\ [][NextFollowSteps]_vars

\* --------------------------------------------------- the comment handlers

MaxComments == 2

PostIds    == 1 .. (MaxPosts + 1)       \* ids a request can carry; the last has no row
CommentIds == 1 .. (MaxComments + 1)

\* CommentSerializer.is_valid for the relational fields of the request: post
\* names a post, parent_comment is null or names a comment, author_id names a
\* user; a field a partial update does not carry is not validated
CommentFieldsValid(ps, cs, post, parent_comment, author_id) ==
    /\ post = Keep \/ post \in {q.id : q \in ps}
    /\ parent_comment \in {Keep, None} \/ parent_comment \in {c.id : c \in cs}
    /\ author_id = Keep \/ author_id \in Users

\* CommentViewSet.create with perform_create, the new row getting the key id;
\* valid tells whether content passes validate_content and author_id, which
\* create() overrides, names a user
CommentViewSetCreate(ps, cs, id, user, post, parent_comment, valid) ==
    IF ~ valid \/ post = Keep \/ ~ CommentFieldsValid(ps, cs, post, parent_comment, Keep)
    THEN [cs |-> cs, status |-> HTTP_400_BAD_REQUEST, body |-> ErrorBody("invalid")]
    ELSE [cs |-> cs \cup {NewComment(id, post, user,
                                     IF parent_comment = Keep THEN None ELSE parent_comment)},
          status |-> HTTP_201_CREATED, body |-> NoBody]

\* CommentViewSet.reply on comments/<pk>/reply/?parent=; valid tells whether
\* the request data pass the serializer, whose post and parent_comment save()
\* overrides
CommentViewSetReply(cs, id, user, pk, parent, valid) ==
    LET hit == {c \in CommentQueryset(cs, parent) : c.id = pk}
    IN  IF hit = {}
        THEN [cs |-> cs, status |-> HTTP_404_NOT_FOUND, body |-> ErrorBody("Not found.")]
        ELSE IF ~ valid
        THEN [cs |-> cs, status |-> HTTP_400_BAD_REQUEST, body |-> ErrorBody("invalid")]
        ELSE LET parent_comment == CHOOSE c \in hit : TRUE
             IN  [cs |-> cs \cup {NewComment(id, parent_comment.post, user, parent_comment.id)},
                  status |-> HTTP_201_CREATED, body |-> NoBody]

\* CommentViewSet.partial_update on comments/<pk>/?parent= under
\* IsAuthorOrReadOnly: every field the request carries is written
CommentViewSetUpdate(ps, cs, user, pk, parent, post, parent_comment, author_id, valid) ==
    LET hit == {c \in CommentQueryset(cs, parent) : c.id = pk}
    IN  IF hit = {}
        THEN [cs |-> cs, status |-> HTTP_404_NOT_FOUND, body |-> ErrorBody("Not found.")]
        ELSE IF \E c \in hit : ~ IsAuthor(c, user)
        THEN [cs |-> cs, status |-> HTTP_403_FORBIDDEN,
              body |-> ErrorBody("You do not have permission to perform this action.")]
        ELSE IF ~ valid \/ ~ CommentFieldsValid(ps, cs, post, parent_comment, author_id)
        THEN [cs |-> cs, status |-> HTTP_400_BAD_REQUEST, body |-> ErrorBody("invalid")]
        ELSE LET old == CHOOSE c \in hit : TRUE
                 new == NewComment(old.id,
                            IF post = Keep THEN old.post ELSE post,
                            IF author_id = Keep THEN old.author ELSE author_id,
                            IF parent_comment = Keep THEN old.parent_comment ELSE parent_comment)
             IN  [cs |-> (cs \ hit) \cup {new}, status |-> HTTP_200_OK, body |-> NoBody]

\* the request data a comment request can carry, <<post, parent_comment,
\* author_id, valid>>: every choice of the three relational fields with the
\* rest valid, and one request that is not
CommentData ==
    (({Keep} \cup PostIds) \X ({Keep, None} \cup CommentIds) \X ({Keep} \cup Users) \X {TRUE})
        \cup {<<Keep, Keep, Keep, FALSE>>}

\* POST comments/
CommentCreate(actor) ==
    /\ nextCommentId <= MaxComments
    /\ before' = Started /\ observe' = observe
    /\ IF actor = Anon
       THEN /\ \E st \in DeniedStatuses : resp' = Denied("comment.create", 0, st)
            /\ UNCHANGED <<comments, nextCommentId>>
       ELSE \E d \in {x \in CommentData : x[3] = Keep} :
            LET r == CommentViewSetCreate(posts, comments, nextCommentId, actor,
                                          d[1], d[2], d[4])
            IN  /\ comments' = r.cs
                /\ nextCommentId' = IF r.status = HTTP_201_CREATED
                                    THEN nextCommentId + 1 ELSE nextCommentId
                /\ resp' = Record([op |-> "comment.create", actor |-> actor, arg |-> d,
                            status |-> r.status, body |-> r.body])
    /\ UNCHANGED bookRows
    /\ UNCHANGED <<follows, posts, nextId, now, postLikes, commentLikes, beforeLikes, reqs>>

\* POST comments/<pk>/reply/?parent=
CommentReply(actor, pk, parent, valid) ==
    /\ nextCommentId <= MaxComments
    /\ before' = Started /\ observe' = observe
    /\ IF actor = Anon
       THEN /\ \E st \in DeniedStatuses : resp' = Denied("comment.reply", pk, st)
            /\ UNCHANGED <<comments, nextCommentId>>
       ELSE LET r == CommentViewSetReply(comments, nextCommentId, actor, pk, parent, valid)
            IN  /\ comments' = r.cs
                /\ nextCommentId' = IF r.status = HTTP_201_CREATED
                                    THEN nextCommentId + 1 ELSE nextCommentId
                /\ resp' = Record([op |-> "comment.reply", actor |-> actor,
                            arg |-> <<pk, parent>>,
                            status |-> r.status, body |-> r.body])
    /\ UNCHANGED bookRows
    /\ UNCHANGED <<follows, posts, nextId, now, postLikes, commentLikes, beforeLikes, reqs>>

\* PATCH comments/<pk>/?parent=; the data of a request that get_object or the
\* permission refuses are never read
CommentUpdate(actor, pk, parent) ==
    /\ before' = Started /\ observe' = observe
    /\ IF actor = Anon
       THEN /\ \E st \in DeniedStatuses : resp' = Denied("comment.update", pk, st)
            /\ comments' = comments
       ELSE LET empty == <<Keep, Keep, Keep, TRUE>>
                read  == CommentViewSetUpdate(posts, comments, actor, pk, parent,
                                              Keep, Keep, Keep, TRUE).status = HTTP_200_OK
            IN  \E d \in IF read THEN CommentData ELSE {empty} :
                LET r == CommentViewSetUpdate(posts, comments, actor, pk, parent,
                                              d[1], d[2], d[3], d[4])
                IN  /\ comments' = r.cs
                    /\ resp' = Record([op |-> "comment.update", actor |-> actor,
                                arg |-> <<pk, parent, d>>,
                                status |-> r.status, body |-> r.body])
    /\ UNCHANGED bookRows
    /\ UNCHANGED <<follows, posts, nextId, now, postLikes, commentLikes,
                   nextCommentId, beforeLikes, reqs>>

\* posts of the users in turn, and no comment yet
InitComment ==
    /\ posts = {NewPost(i, ((i - 1) % NumUsers) + 1, i) : i \in 1 .. MaxPosts}
    /\ nextId = MaxPosts + 1
    /\ now = MaxPosts
    /\ comments = {}
    /\ nextCommentId = 1
    /\ follows = EmptyBag
    /\ postLikes = EmptyBag
    /\ commentLikes = EmptyBag
    /\ resp = NoResp
    /\ before = EmptyBag
    /\ beforeLikes = <<EmptyBag, EmptyBag>>
    /\ observe = FALSE
    /\ reqs = << >>
    /\ books = {}
    /\ nextBookId = 1

NextComment ==
    \/ \E a \in Actors : CommentCreate(a)
    \/ \E a \in Actors, i \in CommentIds, q \in {None, 1}, v \in BOOLEAN :
          CommentReply(a, i, q, v)
    \/ \E a \in Actors, i \in CommentIds, q \in {None, 1} : CommentUpdate(a, i, q)

\* the comments of the posts: create, reply and update
SpecComment == InitComment /\ [][NextComment]_vars

\* CommentViewSet.retrieve on comments/<pk>/?parent= once has_permission let
\* the request in
CommentViewSetRetrieve(cs, actor, pk, parent) ==
    LET hit == {c \in CommentQueryset(cs, parent) : c.id = pk}
    IN  IF hit = {}
        THEN [status |-> HTTP_404_NOT_FOUND, body |-> NotFound]
        ELSE IF \E c \in hit : ~ IsAuthorOrReadOnly(c, actor, "GET")
        THEN [status |-> HTTP_403_FORBIDDEN, body |-> Forbidden]
        ELSE [status |-> HTTP_200_OK, body |-> CHOOSE c \in hit : TRUE]

\* CommentViewSet.destroy on comments/<pk>/?parent= for request.user = user;
\* the replies go with the comment
CommentViewSetDestroy(cs, user, pk, parent) ==
    LET hit == {c \in CommentQueryset(cs, parent) : c.id = pk}
    IN  IF hit = {}
        THEN [cs |-> cs, status |-> HTTP_404_NOT_FOUND, body |-> NotFound]
        ELSE IF \E c \in hit : ~ IsAuthorOrReadOnly(c, user, "DELETE")
        THEN [cs |-> cs, status |-> HTTP_403_FORBIDDEN, body |-> Forbidden]
        ELSE [cs |-> cs \ CascadeComments(cs, hit), status |-> HTTP_204_NO_CONTENT,
              body |-> NoBody]

\* DELETE comments/<pk>/?parent=
CommentDelete(actor, pk, parent) ==
    /\ before' = Started /\ observe' = observe
    /\ IF ~ IsAuthenticatedOrReadOnly(actor, "DELETE")
       THEN /\ \E st \in DeniedStatuses : resp' = Denied("comment.delete", <<pk, parent>>, st)
            /\ UNCHANGED <<comments, commentLikes>>
       ELSE LET r == CommentViewSetDestroy(comments, actor, pk, parent)
            IN  /\ comments' = r.cs
                /\ commentLikes' = LikesOfOthers(commentLikes, {c.id : c \in comments \ r.cs})
                /\ resp' = Record([op |-> "comment.delete", actor |-> actor,
                            arg |-> <<pk, parent>>, status |-> r.status, body |-> r.body])
    /\ UNCHANGED bookRows
    /\ UNCHANGED <<follows, posts, nextId, now, postLikes, nextCommentId, beforeLikes, reqs>>

\* GET comments/<pk>/?parent=
CommentRetrieve(actor, pk, parent) ==
    /\ before' = Started /\ observe' = observe
    /\ IF ~ IsAuthenticatedOrReadOnly(actor, "GET")
       THEN \E st \in DeniedStatuses : resp' = Denied("comment.retrieve", <<pk, parent>>, st)
       ELSE LET r == CommentViewSetRetrieve(comments, actor, pk, parent)
            IN  resp' = Record([op |-> "comment.retrieve", actor |-> actor,
                                arg |-> <<pk, parent>>, status |-> r.status, body |-> r.body])
    /\ UNCHANGED <<follows, posts, nextId, now>>
    /\ UNCHANGED bookRows
    /\ UNCHANGED postsAppRows

\* a post of user 1 and a post of the last user, a comment of user 1 on the
\* first post and a reply of the last user to it
InitEdit ==
    /\ posts = {NewPost(1, 1, 1), NewPost(2, NumUsers, 2)}
    /\ nextId = 3
    /\ now = 2
    /\ comments = {NewComment(1, 1, 1, None), NewComment(2, 1, NumUsers, 1)}
    /\ nextCommentId = 3
    /\ follows = EmptyBag
    /\ postLikes = EmptyBag
    /\ commentLikes = EmptyBag
    /\ resp = NoResp
    /\ before = EmptyBag
    /\ beforeLikes = <<EmptyBag, EmptyBag>>
    /\ observe = FALSE
    /\ reqs = << >>
    /\ books = {}
    /\ nextBookId = 1

\* the posts and comments of InitEdit and an id without a row
IdsEdit == {1, 2, 3}

\* the values of ?parent= the requests of SpecEdit carry
ParentsEdit == {None, 1, 2}

NextEdit ==
    \/ \E a \in Actors, i \in IdsEdit, u \in {Keep} \cup UserIds, v \in BOOLEAN :
          UpdatePost(a, i, u, v)
    \/ \E a \in Actors, i \in IdsEdit : DeletePost(a, i)
    \/ \E a \in Actors, i \in IdsEdit : RetrievePost(a, i)
    \/ \E a \in Actors, i \in IdsEdit, q \in ParentsEdit : CommentUpdate(a, i, q)
    \/ \E a \in Actors, i \in IdsEdit, q \in ParentsEdit : CommentDelete(a, i, q)
    \/ \E a \in Actors, i \in IdsEdit, q \in ParentsEdit : CommentRetrieve(a, i, q)

\* reading, updating and deleting the posts and comments there are
SpecEdit == InitEdit /\ [][NextEdit]_vars

\* ----------------------------------------------------------- the book API
MaxBooks == 2

\* datetime.now().year as validate_publication_year reads it
current_year == 2026

\* the lowest year validate_publication_year lets through
MIN_PUBLICATION_YEAR == 1000

\* the clients of the book API: one without a session and one logged in
BookUsers  == {1}
BookActors == {Anon} \cup BookUsers

\* the rows of Author, which the book views only read
AuthorIds == {1}

\* str.strip() of a title, a sequence of characters
RECURSIVE lstrip(_)
lstrip(s) == IF s # << >> /\ Head(s) = " " THEN lstrip(Tail(s)) ELSE s

RECURSIVE rstrip(_)
rstrip(s) == IF s # << >> /\ s[Len(s)] = " " THEN rstrip(SubSeq(s, 1, Len(s) - 1)) ELSE s

strip(s) == rstrip(lstrip(s))

\* Book.objects.create(title=..., publication_year=..., author=...)
NewBook(id, title, publication_year, author) ==
    [id |-> id, title |-> title, publication_year |-> publication_year, author |-> author]

\* BookSerializer.is_valid: validate_title, validate_publication_year and the
\* primary key field author
BookSerializerValid(title, publication_year, author) ==
    /\ strip(title) # << >>
    /\ publication_year <= current_year
    /\ publication_year >= MIN_PUBLICATION_YEAR
    /\ author \in AuthorIds

\* the request data <<title, publication_year, author>> of the book requests:
\* two that pass the serializer, the second with a title to strip, and one for
\* each way of failing it
BookData ==
    {<<(<<"a">>), MIN_PUBLICATION_YEAR, 1>>,
     <<(<<" ", "b", " ">>), current_year, 1>>,
     <<(<<" ">>), current_year, 1>>,
     <<(<<"a">>), current_year + 1, 1>>,
     <<(<<"a">>), MIN_PUBLICATION_YEAR - 1, 1>>,
     <<(<<"a">>), current_year, 2>>}

\* permissions.AllowAny
AllowAny(actor) == TRUE

\* permissions.IsAuthenticated letting everyone in
IsAuthenticatedNoCheck(actor) == TRUE

\* permissions.IsAuthenticated
IsAuthenticated(actor) == actor # Anon

\* the status of a request IsAuthenticated refuses in the book project: its
\* tests run under authentication classes that send no WWW-Authenticate
\* header, so the NotAuthenticated error is answered 403
BookDeniedStatus == HTTP_403_FORBIDDEN

\* BookListView: GET books/ (the rows of the answer, not their order)
BookListViewGet(bs, actor) ==
    IF ~ AllowAny(actor)
    THEN [status |-> BookDeniedStatus, body |-> Forbidden]
    ELSE [status |-> HTTP_200_OK, body |-> bs]

\* BookDetailView: GET books/<pk>/
BookDetailViewGet(bs, actor, pk) ==
    LET hit == {b \in bs : b.id = pk}
    IN  IF ~ AllowAny(actor)
        THEN [status |-> BookDeniedStatus, body |-> Forbidden]
        ELSE IF hit = {}
        THEN [status |-> HTTP_404_NOT_FOUND, body |-> NotFound]
        ELSE [status |-> HTTP_200_OK, body |-> CHOOSE b \in hit : TRUE]

\* BookCreateView: POST books/create/, the new row getting the key id
BookCreateViewPost(bs, id, actor, d) ==
    IF ~ IsAuthenticated(actor)
    THEN [bs |-> bs, status |-> BookDeniedStatus, body |-> Forbidden]
    ELSE IF ~ BookSerializerValid(d[1], d[2], d[3])
    THEN [bs |-> bs, status |-> HTTP_400_BAD_REQUEST, body |-> ErrorBody("invalid")]
    ELSE LET new == NewBook(id, strip(d[1]), d[2], d[3])
         IN  [bs |-> bs \cup {new}, status |-> HTTP_201_CREATED, body |-> new]

\* BookUpdateView: PUT books/update/<pk>/, and PUT books/update/ (pk = Keep),
\* where get_object finds no pk among the URL keyword arguments and its
\* assertion fails
BookUpdateViewPut(bs, actor, pk, d) ==
    LET hit == {b \in bs : b.id = pk}
    IN  IF ~ IsAuthenticated(actor)
        THEN [bs |-> bs, status |-> BookDeniedStatus, body |-> Forbidden]
        ELSE IF pk = Keep
        THEN [bs |-> bs, status |-> HTTP_500_INTERNAL_SERVER_ERROR,
              body |-> ErrorBody("AssertionError")]
        ELSE IF hit = {}
        THEN [bs |-> bs, status |-> HTTP_404_NOT_FOUND, body |-> NotFound]
        ELSE IF ~ BookSerializerValid(d[1], d[2], d[3])
        THEN [bs |-> bs, status |-> HTTP_400_BAD_REQUEST, body |-> ErrorBody("invalid")]
        ELSE LET new == NewBook(pk, strip(d[1]), d[2], d[3])
             IN  [bs |-> (bs \ hit) \cup {new}, status |-> HTTP_200_OK, body |-> new]

\* BookDeleteView: DELETE books/delete/<pk>/, and DELETE books/delete/
BookDeleteViewDelete(bs, actor, pk) ==
    LET hit == {b \in bs : b.id = pk}
    IN  IF ~ IsAuthenticated(actor)
        THEN [bs |-> bs, status |-> BookDeniedStatus, body |-> Forbidden]
        ELSE IF pk = Keep
        THEN [bs |-> bs, status |-> HTTP_500_INTERNAL_SERVER_ERROR,
              body |-> ErrorBody("AssertionError")]
        ELSE IF hit = {}
        THEN [bs |-> bs, status |-> HTTP_404_NOT_FOUND, body |-> NotFound]
        ELSE [bs |-> bs \ hit, status |-> HTTP_204_NO_CONTENT, body |-> NoBody]

\* what the handlers of the book API never touch
socialRows == <<follows, posts, nextId, now, before, observe>>

\* GET books/
BookList(actor) ==
    /\ LET r == BookListViewGet(books, actor)
       IN  resp' = Record([op |-> "book.list", actor |-> actor, arg |-> 0,
                           status |-> r.status, body |-> r.body])
    /\ UNCHANGED bookRows
    /\ UNCHANGED socialRows
    /\ UNCHANGED postsAppRows

\* GET books/<pk>/
BookDetail(actor, pk) ==
    /\ LET r == BookDetailViewGet(books, actor, pk)
       IN  resp' = Record([op |-> "book.detail", actor |-> actor, arg |-> pk,
                           status |-> r.status, body |-> r.body])
    /\ UNCHANGED bookRows
    /\ UNCHANGED socialRows
    /\ UNCHANGED postsAppRows

\* POST books/create/
BookCreate(actor, d) ==
    /\ nextBookId <= MaxBooks
    /\ LET r == BookCreateViewPost(books, nextBookId, actor, d)
       IN  /\ books' = r.bs
           /\ nextBookId' = IF r.status = HTTP_201_CREATED THEN nextBookId + 1
                            ELSE nextBookId
           /\ resp' = Record([op |-> "book.create", actor |-> actor, arg |-> d,
                              status |-> r.status, body |-> r.body])
    /\ UNCHANGED socialRows
    /\ UNCHANGED postsAppRows

\* PUT books/update/<pk>/ or books/update/
BookUpdate(actor, pk, d) ==
    /\ LET r == BookUpdateViewPut(books, actor, pk, d)
       IN  /\ books' = r.bs
           /\ resp' = Record([op |-> "book.update", actor |-> actor, arg |-> <<pk, d>>,
                              status |-> r.status, body |-> r.body])
    /\ UNCHANGED nextBookId
    /\ UNCHANGED socialRows
    /\ UNCHANGED postsAppRows

\* DELETE books/delete/<pk>/ or books/delete/
BookDelete(actor, pk) ==
    /\ LET r == BookDeleteViewDelete(books, actor, pk)
       IN  /\ books' = r.bs
           /\ resp' = Record([op |-> "book.delete", actor |-> actor, arg |-> pk,
                              status |-> r.status, body |-> r.body])
    /\ UNCHANGED nextBookId
    /\ UNCHANGED socialRows
    /\ UNCHANGED postsAppRows

\* the pk of a book URL: the books there can be, an id without a row, and
\* Keep for the update and delete routes without a pk
BookIds == 1 .. (MaxBooks + 1)

\* the book project after the migrations, with its author
InitBooks == EmptyDatabase /\ observe = TRUE

NextBooks ==
    \/ \E a \in BookActors : BookList(a)
    \/ \E a \in BookActors, i \in BookIds : BookDetail(a, i)
    \/ \E a \in BookActors, d \in BookData : BookCreate(a, d)
    \/ \E a \in BookActors, i \in {Keep} \cup BookIds, d \in BookData : BookUpdate(a, i, d)
    \/ \E a \in BookActors, i \in {Keep} \cup BookIds : BookDelete(a, i)

\* the book API
SpecBooks == InitBooks /\ [][NextBooks]_vars

\* ------------------------------------------------- the follow graph claims
FollowOps   == {"follow", "User.follow"}
UnfollowOps == {"unfollow", "User.unfollow"}

\* the request resp answers was made by user a about another user b
LastWas(ops) ==
    /\ resp.op \in ops
    /\ resp.actor \in Users
    /\ resp.arg \in Users
    /\ resp.arg # resp.actor

\* the row that says resp.actor follows resp.arg
LastEdge == <<resp.arg, resp.actor>>

\* the last call did not fail
LastSucceeded ==
    IF resp.op \in {"follow", "unfollow"} THEN resp.status = HTTP_200_OK ELSE resp.body.ret

\* C1: in every reachable state of the follow graph no user follows
\* themselves: no row has the same user on both sides.
C1_NoSelfFollow == \A r \in BagToSet(follows) : r[1] # r[2]

C1_Witness ==
    /\ resp.op \in FollowOps
    /\ resp.actor \in Users
    /\ resp.arg = resp.actor
    /\ follows # EmptyBag

\* C2: follow(A, A) is refused for every user A in every state (400 from the
\* endpoint, False from User.follow) and leaves the follow graph as it was.
C2_SelfFollowFails ==
    (resp.op \in FollowOps /\ resp.actor \in Users /\ resp.arg = resp.actor)
        => /\ follows = before
           /\ resp.op = "follow" => resp.status = HTTP_400_BAD_REQUEST
           /\ resp.op = "User.follow" => ~ resp.body.ret

C2_Witness ==
    /\ resp.op = "follow"
    /\ resp.actor \in Users
    /\ resp.arg = resp.actor
    /\ resp.status = HTTP_400_BAD_REQUEST
    /\ follows # EmptyBag

\* C3 as stated: follow(a, b), a # b, does not fail and leaves the graph as it
\* was when the edge exists, and inserts exactly the edge when it does not.
C3_Original ==
    LastWas(FollowOps) =>
        IF BagIn(LastEdge, before)
        THEN LastSucceeded /\ follows = before
        ELSE follows = before (+) SetToBag({LastEdge})

\* C3 amended: follow(a, b), a # b, leaves the graph as it was when the edge
\* exists (User.follow returns True, the endpoint answers 400 'already
\* following'), and succeeds inserting exactly the edge when it does not.
C3_FollowKeepsOrInserts ==
    LastWas(FollowOps) =>
        IF BagIn(LastEdge, before)
        THEN /\ follows = before
             /\ resp.op = "follow" => resp.status = HTTP_400_BAD_REQUEST
             /\ resp.op = "User.follow" => resp.body.ret
        ELSE LastSucceeded /\ follows = before (+) SetToBag({LastEdge})

C3_Witness ==
    /\ LastWas({"follow"})
    /\ BagIn(LastEdge, before)
    /\ resp.status = HTTP_400_BAD_REQUEST

\* the step repeats the request that resp answers
Repeats ==
    /\ resp'.op = resp.op
    /\ resp'.actor = resp.actor
    /\ resp'.arg = resp.arg

\* C4 as stated: unfollow(a, b), a # b, with the edge absent does not fail and
\* leaves the graph unchanged, and a second unfollow in a row has the outcome
\* and the final graph of the first.
C4_Original ==
    [][ /\ (LastWas(UnfollowOps)' /\ ~ BagIn(LastEdge', before'))
            => (LastSucceeded' /\ follows' = before')
        /\ (LastWas(UnfollowOps) /\ Repeats)
            => (follows' = follows /\ LastSucceeded' = LastSucceeded) ]_vars

\* C4 amended: unfollow(a, b), a # b, with the edge absent leaves the graph
\* unchanged (User.unfollow returns True, the endpoint answers 400 'not
\* following'), and a second unfollow in a row leaves the graph the first left.
C4_UnfollowIdempotentOnGraph ==
    [][ /\ (LastWas(UnfollowOps)' /\ ~ BagIn(LastEdge', before'))
            => /\ follows' = before'
               /\ resp'.op = "unfollow" => resp'.status = HTTP_400_BAD_REQUEST
               /\ resp'.op = "User.unfollow" => resp'.body.ret
        /\ (LastWas(UnfollowOps) /\ Repeats) => follows' = follows ]_vars

C4_Witness ==
    /\ LastWas({"unfollow"})
    /\ ~ BagIn(LastEdge, before)
    /\ resp.status = HTTP_400_BAD_REQUEST
    /\ follows # EmptyBag

\* the step is the unfollow of resp.arg by resp.actor, right after their follow
FollowThenUnfollow ==
    /\ LastWas(FollowOps)
    /\ resp'.op \in UnfollowOps
    /\ resp'.actor = resp.actor
    /\ resp'.arg = resp.arg

\* C5 as stated: from every graph, also one where A already follows B, A
\* following B and then unfollowing B leaves the graph it started from.
C5_Original == [][FollowThenUnfollow => follows' = before]_vars

\* C5 amended: from every graph in which A does not yet follow B, A following
\* B and then unfollowing B leaves the graph it started from.
C5_FollowUnfollowRestores ==
    [][(FollowThenUnfollow /\ ~ BagIn(LastEdge, before)) => follows' = before]_vars

C5_Witness ==
    /\ LastWas(UnfollowOps)
    /\ LastSucceeded
    /\ BagIn(LastEdge, before)
    /\ follows = EmptyBag


\* --------------------------------------------------------- the feed claims
Range(seq) == {seq[i] : i \in 1 .. Len(seq)}

\* the feed of u as the query may list it in this state
FeedLists(u) == OrderByCreatedAtDesc(FeedQuery(follows, posts, u), now)

\* what GET feed/?page=&page_size= may answer u in this state
FeedAnswers(u, page, size) == FeedViewSetList(follows, posts, now, u, page, size)

OwnPosts(u) == {p \in posts : p.author = u}

\* the posts on the pages 1 .. total_pages of one listing
AllPages(list, size) ==
    UNION {Range(Paginate(list, n, size).body.results) :
               n \in 1 .. Paginate(list, 1, size).body.total_pages}

C7_FeedOnlyFollowedOrOwn ==
    \A u \in Users, page \in Pages, size \in Sizes :
        \A r \in FeedAnswers(u, page, size) :
            r.status = HTTP_200_OK =>
                \A p \in Range(r.body.results) :
                    p.author = u \/ is_following(follows, u, p.author)

C7_Witness ==
    \E u \in Users, v \in Users :
        /\ v # u
        /\ ~ is_following(follows, u, v)
        /\ is_following(follows, v, u)
        /\ OwnPosts(v) # {}
        /\ \E r \in FeedAnswers(u, 1, 0) :
              r.status = HTTP_200_OK /\ r.body.count = 1 /\ Len(r.body.results) = 1

\* newest first, and of two posts of one timestamp the higher id first
SortedByCreatedAtThenIdDesc(seq) ==
    \A i \in 1 .. Len(seq), j \in 1 .. Len(seq) :
        i < j => \/ seq[i].created_at > seq[j].created_at
                 \/ seq[i].created_at = seq[j].created_at /\ seq[i].id > seq[j].id

\* C8: every answer of the feed lists its posts by creation timestamp
\* descending with ties broken by post identifier descending, one
\* deterministic order for one state of the store.
C8_FeedTieBreakById ==
    \A u \in Users, page \in Pages, size \in Sizes :
        \A r \in FeedAnswers(u, page, size) :
            r.status = HTTP_200_OK => SortedByCreatedAtThenIdDesc(r.body.results)

\* C9: the first page of the feed is always answered 200; for a user who
\* follows nobody it holds that user's posts only, and with no matching post
\* it is an empty list with count 0.
C9_FeedOfLonerOwnOnlyEmptyOk ==
    \A u \in Users, size \in Sizes :
        \A r \in FeedAnswers(u, 1, size) :
            /\ r.status = HTTP_200_OK
            /\ Following(follows, u) = {} =>
                  /\ \A p \in Range(r.body.results) : p.author = u
                  /\ r.body.count = Cardinality(OwnPosts(u))
            /\ FeedQuery(follows, posts, u) = {} =>
                  r.body.results = << >> /\ r.body.count = 0

C9_Witness ==
    \E u \in Users :
        /\ Following(follows, u) = {}
        /\ OwnPosts(u) = {}
        /\ posts # {}
        /\ \E r \in FeedAnswers(u, 1, 0) :
              r.status = HTTP_200_OK /\ r.body.results = << >> /\ r.body.count = 0

\* ----------------------------------------------------- the pagination claim
\* the request resp answers: its page, its page size as the claim words it
\* (the default 10, at most 100), and the number of posts of the feed
LastPage == resp.arg[1]

LastSize ==
    IF resp.arg[2] < 1 THEN PAGE_SIZE
    ELSE IF resp.arg[2] > MAX_PAGE_SIZE THEN MAX_PAGE_SIZE ELSE resp.arg[2]

LastN == Cardinality(FeedQuery(follows, posts, resp.actor))

CeilDiv(n, d) == (n + d - 1) \div d

FeedAnswered == resp.op = "feed" /\ resp.status = HTTP_200_OK

PageOfFeed ==
    /\ Len(resp.body.results) = Min(LastSize, LastN - (LastPage - 1) * LastSize)
    /\ resp.body.count = LastN
    /\ (resp.body.next # None) <=> (LastPage * LastSize < LastN)
    /\ (resp.body.previous # None) <=> (LastPage > 1)

\* C10 as stated: a page of a feed of N posts with page size s and page p has
\* min(s, N - (p-1)*s) results, count N, total_pages ceil(N/s), next exactly
\* when p*s < N and previous exactly when p > 1.
C10_Original ==
    FeedAnswered => PageOfFeed /\ resp.body.total_pages = CeilDiv(LastN, LastSize)

\* C10 amended: the same with total_pages = max(1, ceil(N/s)): the empty feed
\* has one (empty) page.
C10_PageOfFeed ==
    FeedAnswered =>
        PageOfFeed /\ resp.body.total_pages = Max(1, CeilDiv(LastN, LastSize))

C10_Witness ==
    /\ FeedAnswered
    /\ resp.arg[2] > MAX_PAGE_SIZE
    /\ Len(resp.body.results) = MAX_PAGE_SIZE
    /\ resp.body.next # None
    /\ resp.body.previous = None
    /\ resp.body.total_pages = 2

\* ------------------------------------------------------- the like claims
LikeOps == {"post.like", "comment.like", "likes.create"}

\* resp answers a like request that went through
LikeAnswered == resp.op \in LikeOps /\ resp.status = HTTP_200_OK

\* the target of the request resp answers is a post
LikedPost == resp.op = "post.like" \/ (resp.op = "likes.create" /\ ~ Falsy(resp.arg[1]))

LikedId ==
    IF resp.op = "post.like" THEN resp.arg
    ELSE IF resp.op = "comment.like" THEN resp.arg[1]
    ELSE IF ~ Falsy(resp.arg[1]) THEN resp.arg[1] ELSE resp.arg[2]

\* the users with a row for the target in a like table
LikedBy(rows, id) == {u \in Users : BagIn(<<id, u>>, rows)}

LikedBefore == LikedBy(IF LikedPost THEN beforeLikes[1] ELSE beforeLikes[2], LikedId)
LikedAfter  == LikedBy(IF LikedPost THEN postLikes ELSE commentLikes, LikedId)

\* C11: a like request of a user on a post or comment removes the user from
\* the liked-by set and answers liked = false when the user was in it, adds
\* the user and answers liked = true when not, and answers as total_likes the
\* size of the liked-by set after the change.
C11_ToggleLike ==
    LikeAnswered =>
        /\ IF resp.actor \in LikedBefore
           THEN LikedAfter = LikedBefore \ {resp.actor} /\ ~ resp.body.liked
           ELSE LikedAfter = LikedBefore \cup {resp.actor} /\ resp.body.liked
        /\ resp.body.total_likes = Cardinality(LikedAfter)

C11_Witness ==
    /\ LikeAnswered
    /\ resp.op = "comment.like"
    /\ ~ resp.body.liked
    /\ resp.actor \in LikedBefore
    /\ resp.body.total_likes = 1

\* the step answers a like request of the user and target of the like request
\* resp answers
SecondToggle ==
    /\ LikeAnswered /\ LikeAnswered'
    /\ resp'.actor = resp.actor
    /\ LikedPost' = LikedPost
    /\ LikedId' = LikedId

\* C12: two like requests in a row of one user on one post or comment, through
\* the like actions or the likes endpoint, leave both like tables as they were
\* before the first, and the second answers the liked state and the count the
\* target had before the first.
C12_ToggleTwice ==
    [][SecondToggle =>
        /\ <<postLikes', commentLikes'>> = beforeLikes
        /\ resp'.body.liked = (resp.actor \in LikedBefore)
        /\ resp'.body.total_likes = Cardinality(LikedBefore)]_vars

C12_Witness ==
    /\ LikeAnswered
    /\ resp.op = "likes.create"
    /\ ~ LikedPost
    /\ ~ resp.body.liked
    /\ resp.actor \in LikedBefore
    /\ LikedAfter # {}

\* ------------------------------------- the claims on concurrent likes
\* the like table a worker's request works on
TableOf(r) == IF r.op = "post.like" THEN postLikes ELSE commentLikes

TableBefore(r) == IF r.op = "post.like" THEN beforeLikes[1] ELSE beforeLikes[2]

\* the worker has answered a like request that went through
Toggled(w) == reqs[w].pc = "done" /\ reqs[w].status = HTTP_200_OK

\* two workers served the same user on the same target
SamePair(v, w) ==
    /\ reqs[v].op = reqs[w].op
    /\ reqs[v].pk = reqs[w].pk
    /\ reqs[v].actor = reqs[w].actor

SameTarget(v, w) == reqs[v].op = reqs[w].op /\ reqs[v].pk = reqs[w].pk

\* no worker is in the middle of a request
Quiet == \A w \in Workers : reqs[w].pc \in {"idle", "done"}

\* C13: however the statements of like requests interleave, and whatever
\* likes were there before, no like table ever holds two rows for one user
\* and one target.
C13_LikesAreASet ==
    /\ \A x \in BagToSet(postLikes) : CopiesIn(x, postLikes) = 1
    /\ \A x \in BagToSet(commentLikes) : CopiesIn(x, commentLikes) = 1

\* two requests of one user on one target both found no row and both added
C13_Witness ==
    \E v, w \in Workers :
        /\ v # w
        /\ Toggled(v) /\ Toggled(w)
        /\ SamePair(v, w)
        /\ reqs[v].body.liked /\ reqs[w].body.liked
        /\ LikesExists(TableOf(reqs[v]), reqs[v].pk, reqs[v].actor)

\* C14: when requests of different users on one target have run side by side
\* and all are answered, the liked-by set of the target is the set before
\* with every requesting user toggled, whatever the interleaving was.
C14_NoLostUpdate ==
    (Quiet /\ \A v, w \in Workers : (v # w /\ Toggled(v) /\ Toggled(w)) => ~ SamePair(v, w))
        => \A w \in Workers : Toggled(w) =>
              LikedBy(TableOf(reqs[w]), reqs[w].pk)
                = {u \in Users :
                     (u \in LikedBy(TableBefore(reqs[w]), reqs[w].pk))
                       # (\E v \in Workers : /\ Toggled(v)
                                             /\ SameTarget(v, w)
                                             /\ reqs[v].actor = u)}

C14_Witness ==
    /\ Quiet
    /\ \E v, w \in Workers :
          /\ Toggled(v) /\ Toggled(w)
          /\ SameTarget(v, w)
          /\ reqs[v].actor # reqs[w].actor
          /\ reqs[v].body.liked /\ ~ reqs[w].body.liked
          /\ reqs[v].body.total_likes = 2

\* C15: two requests of one user on one target that ran side by side, with no
\* other request, end as one after the other would: one answers liked, the
\* other unliked, and the like tables are as they were before.
C15_SamePairSerial ==
    \A v, w \in Workers :
        (/\ v # w
         /\ Toggled(v) /\ Toggled(w)
         /\ SamePair(v, w)
         /\ \A x \in Workers \ {v, w} : reqs[x].pc = "idle")
            => /\ reqs[v].body.liked # reqs[w].body.liked
               /\ <<postLikes, commentLikes>> = beforeLikes

\* ----------------------------------- the claim on concurrent follows
\* C16: however the statements of follow and unfollow requests interleave,
\* also those of follow requests for one pair, the follow table holds at most
\* one row per ordered pair, and followers_count and following_count of every
\* user count each follower and each followed user once.
C16_FollowEdgeUnique ==
    /\ \A e \in BagToSet(follows) : CopiesIn(e, follows) = 1
    /\ \A u \in Users :
          /\ followers_count(follows, u) = Cardinality({v \in Users : BagIn(<<u, v>>, follows)})
          /\ following_count(follows, u) = Cardinality({v \in Users : BagIn(<<v, u>>, follows)})

\* two follow requests for one pair both found no row and both added
C16_Witness ==
    \E v, w \in Workers :
        /\ v # w
        /\ reqs[v].op = "follow" /\ reqs[w].op = "follow"
        /\ Toggled(v) /\ Toggled(w)
        /\ reqs[v].actor = reqs[w].actor /\ reqs[v].pk = reqs[w].pk
        /\ BagIn(<<reqs[v].pk, reqs[v].actor>>, follows)
        /\ reqs[v].body.followers_count = 1
        /\ reqs[w].body.followers_count = 1

\* ------------------------------------------------ the comment claims
\* the comments reached from comment id by going up k parent pointers
RECURSIVE Ancestor(_, _, _)
Ancestor(cs, id, k) ==
    IF k = 0 \/ id = None THEN id
    ELSE LET hit == {c \in cs : c.id = id}
         IN  IF hit = {} THEN None
             ELSE Ancestor(cs, (CHOOSE c \in hit : TRUE).parent_comment, k - 1)

\* C17: after every sequence of comment create, reply and update, every
\* comment with a parent is on the post its parent is on.
C17_ParentInSamePost ==
    \A c \in comments : c.parent_comment # None =>
        \E q \in comments : q.id = c.parent_comment /\ q.post = c.post

\* C18: after every sequence of comment create, reply and update, going up
\* the parent pointers from any comment ends at a top-level comment: no
\* comment is its own ancestor.
C18_ParentsAcyclic ==
    \A c \in comments : Ancestor(comments, c.id, Cardinality(comments)) = None

\* ------------------------------------- the follow direction and answers
\* the row that says resp.arg follows resp.actor
ReverseEdge == <<resp.actor, resp.arg>>

\* C19: a follow of B by A that succeeds leaves the row saying A follows B in
\* the table and every other row, that of B following A too, as it was; an
\* unfollow of B by A that succeeds leaves no row saying A follows B and
\* every other row as it was.
C19_FollowIsDirected ==
    (LastWas(FollowOps \cup UnfollowOps) /\ LastSucceeded) =>
        /\ BagIn(LastEdge, follows) <=> resp.op \in FollowOps
        /\ \A e \in Users \X Users :
              e # LastEdge => CopiesIn(e, follows) = CopiesIn(e, before)

C19_Witness ==
    /\ LastWas({"follow"})
    /\ LastSucceeded
    /\ BagIn(LastEdge, follows)
    /\ ~ BagIn(ReverseEdge, follows)

\* C20: the 200 answer of the follow endpoint carries following = true, the
\* number of users following B after the follow as followers_count and the
\* number of users A follows after it as following_count; the 200 answer of
\* the unfollow endpoint carries following = false and the same two counts
\* taken after the removal.
C20_FollowAnswer ==
    (resp.op \in {"follow", "unfollow"} /\ resp.status = HTTP_200_OK) =>
        /\ resp.body.following = (resp.op = "follow")
        /\ resp.body.followers_count
             = Cardinality({v \in Users : BagIn(<<resp.arg, v>>, follows)})
        /\ resp.body.following_count
             = Cardinality({v \in Users : BagIn(<<v, resp.actor>>, follows)})

C20_Witness ==
    /\ resp.op = "unfollow"
    /\ resp.status = HTTP_200_OK
    /\ ~ resp.body.following
    /\ resp.body.followers_count = 0
    /\ resp.body.following_count = 0
    /\ BagIn(ReverseEdge, follows)

\* ----------------------------------------------------- the trending feed
\* timezone.now() - timedelta(days=7)
week_ago(t) == t - TRENDING_DAYS

\* Post.objects.filter(created_at__gte=week_ago)
TrendingQuery(ps, t) == {p \in ps : p.created_at >= week_ago(t)}

\* .order_by('-likes__count') on the queryset as the view builds it, without
\* annotate(Count('likes')): likes leads to the user model, which has no field
\* or transform named count, so compiling the query raises FieldError and
\* there is no order it returns the rows in
OrderByLikesCount(S, rows) == {}

\* FeedViewSet.trending for an authenticated request.user at clock reading t:
\* the exception of the query leaves the view when the paginator evaluates it
\* and is answered 500
FeedViewSetTrending(ps, rows, t, page, size) ==
    LET lists == OrderByLikesCount(TrendingQuery(ps, t), rows)
    IN  IF lists = {}
        THEN {[status |-> HTTP_500_INTERNAL_SERVER_ERROR,
               body |-> ErrorBody("FieldError")]}
        ELSE {Paginate(list, page, size) : list \in lists}

\* GET feed/trending/?page=&page_size=
FeedTrending(actor, page, size) ==
    /\ before' = Started /\ beforeLikes' = StartedLikes /\ observe' = observe
    /\ IF actor = Anon
       THEN \E st \in DeniedStatuses : resp' = Denied("feed.trending", <<page, size>>, st)
       ELSE \E r \in FeedViewSetTrending(posts, postLikes, now, page, size) :
            resp' = Record([op |-> "feed.trending", actor |-> actor, arg |-> <<page, size>>,
                            status |-> r.status, body |-> r.body])
    /\ UNCHANGED <<follows, posts, nextId, now>>
    /\ UNCHANGED bookRows
    /\ UNCHANGED <<postLikes, commentLikes, comments, nextCommentId, reqs>>

\* ------------------------------------ the endpoints behind IsAuthenticated
\* one post of user 1, nobody following or liking yet
InitGuarded ==
    /\ posts = {NewPost(1, 1, 0)}
    /\ nextId = 2
    /\ now = 0
    /\ comments = {}
    /\ nextCommentId = 1
    /\ follows = EmptyBag
    /\ postLikes = EmptyBag
    /\ commentLikes = EmptyBag
    /\ resp = NoResp
    /\ before = EmptyBag
    /\ beforeLikes = <<EmptyBag, EmptyBag>>
    /\ observe = TRUE
    /\ reqs = << >>
    /\ books = {}
    /\ nextBookId = 1

\* the identifiers the like requests of SpecGuarded carry: none, 0, the post
\* of InitGuarded and an id without a row
LikeIdsGuarded == {Keep, 0, 1, 2}

\* the users the follow requests of SpecGuarded name: the author of the post
\* and an id without a row
UserIdsGuarded == {1, NumUsers + 1}

NextGuarded ==
    \/ \E a \in Actors, t \in UserIdsGuarded : FollowRequest(a, t)
    \/ \E a \in Actors, t \in UserIdsGuarded : UnfollowRequest(a, t)
    \/ \E a \in Actors, i \in PostIdsLike : PostLike(a, i)
    \/ \E a \in Actors : CommentLike(a, 1, None)
    \/ \E a \in Actors, i \in LikeIdsGuarded, j \in {Keep, 0, 1} : LikeCreate(a, i, j)
    \/ \E a \in Actors : FeedList(a, 1, 0)
    \/ \E a \in Actors : FeedTrending(a, 1, 0)

\* follow, unfollow, like and feed requests of authenticated and anonymous
\* clients
SpecGuarded == InitGuarded /\ [][NextGuarded]_vars

\* ------------------------------------------------------ refused requests
\* C21: an unfollow of A by A fails in every state and leaves the follow
\* table as it was: the endpoint answers 400 and User.unfollow returns False.
C21_SelfUnfollowFails ==
    (resp.op \in UnfollowOps /\ resp.actor \in Users /\ resp.arg = resp.actor)
        => /\ follows = before
           /\ resp.op = "unfollow" => resp.status = HTTP_400_BAD_REQUEST
           /\ resp.op = "User.unfollow" => ~ resp.body.ret

C21_Witness ==
    /\ resp.op = "User.unfollow"
    /\ resp.actor \in Users
    /\ resp.arg = resp.actor
    /\ ~ resp.body.ret
    /\ follows # EmptyBag

\* the request answered by the step names a user, post or comment and nothing
\* it names has a row: the user of a follow or unfollow, the post or comment
\* of a like action, the post_id and comment_id a likes request carries
TargetMissing ==
    /\ resp'.actor \in Users
    /\ \/ resp'.op \in {"follow", "unfollow"} /\ resp'.arg \notin Users
       \/ resp'.op = "post.like" /\ resp'.arg \notin {p.id : p \in posts}
       \/ resp'.op = "comment.like" /\ resp'.arg[1] \notin {c.id : c \in comments}
       \/ /\ resp'.op = "likes.create"
          /\ resp'.arg # <<Keep, Keep>>
          /\ resp'.arg[1] \notin {p.id : p \in posts}
          /\ resp'.arg[2] \notin {c.id : c \in comments}

\* C22: a follow, unfollow or like request of an authenticated user that names
\* no existing user, post or comment is answered 404 and leaves the follow
\* table and both like tables as they were.
C22_MissingTargetNotFound ==
    [][TargetMissing =>
        /\ resp'.status = HTTP_404_NOT_FOUND
        /\ UNCHANGED <<follows, postLikes, commentLikes>>]_vars

\* the endpoints of the claim about requests without a user
GuardedOps == {"follow", "unfollow", "post.like", "comment.like", "likes.create",
               "feed", "feed.trending"}

\* C23: a follow, unfollow, like or feed request without an authenticated
\* user is answered 401 or 403 and leaves the follow table and both like
\* tables as they were.
C23_AnonymousRefused ==
    [][(resp'.actor = Anon /\ resp'.op \in GuardedOps) =>
        /\ resp'.status \in {HTTP_401_UNAUTHORIZED, HTTP_403_FORBIDDEN}
        /\ UNCHANGED <<follows, postLikes, commentLikes>>]_vars

C23_Witness ==
    /\ resp.actor = Anon
    /\ resp.op = "likes.create"
    /\ resp.arg = <<1, Keep>>
    /\ resp.status = HTTP_401_UNAUTHORIZED
    /\ follows # EmptyBag
    /\ postLikes # EmptyBag

\* C24: the first page of the trending feed is answered 200 with the posts of
\* the last 7 days, a post with more likes never after a post with fewer.
C24_TrendingByLikes ==
    (resp.op = "feed.trending" /\ resp.actor \in Users /\ resp.arg[1] = 1) =>
        /\ resp.status = HTTP_200_OK
        /\ Range(resp.body.results) = {p \in posts : p.created_at >= now - TRENDING_DAYS}
        /\ \A i, j \in DOMAIN resp.body.results :
              i < j => total_likes(postLikes, resp.body.results[i].id)
                         >= total_likes(postLikes, resp.body.results[j].id)

\* -------------------------------------------- who may edit what, and how
\* the request data an update of a post can carry, <<author_id, valid>>
PostData == (({Keep} \cup UserIds) \X BOOLEAN)

\* user is not the author of the post or comment
NotAuthor(obj, user) == obj.author # user

\* C25: in every reachable state, an update or delete request of an
\* authenticated user on a post or comment of another author is refused (403,
\* or 404 when the comment is not in the queryset of the request) and leaves
\* the posts and comments as they are, whatever data the request carries;
\* a retrieve of a post or comment is answered 200 with the row to every
\* requester, anonymous ones too.
C25_OnlyAuthorEdits ==
    /\ \A u \in Users : \A p \in posts : NotAuthor(p, u) =>
          /\ \A d \in PostData :
                LET r == PostViewSetUpdate(posts, u, p.id, d[1], d[2])
                IN  r.status = HTTP_403_FORBIDDEN /\ r.ps = posts
          /\ LET r == PostViewSetDestroy(posts, u, p.id)
             IN  r.status = HTTP_403_FORBIDDEN /\ r.ps = posts
    /\ \A u \in Users : \A c \in comments : NotAuthor(c, u) =>
          \A q \in ParentsEdit :
             /\ \A d \in CommentData :
                   LET r == CommentViewSetUpdate(posts, comments, u, c.id, q,
                                                 d[1], d[2], d[3], d[4])
                   IN  /\ r.status \in {HTTP_403_FORBIDDEN, HTTP_404_NOT_FOUND}
                       /\ r.cs = comments
                       /\ q = c.parent_comment => r.status = HTTP_403_FORBIDDEN
             /\ LET r == CommentViewSetDestroy(comments, u, c.id, q)
                IN  /\ r.status \in {HTTP_403_FORBIDDEN, HTTP_404_NOT_FOUND}
                    /\ r.cs = comments
                    /\ q = c.parent_comment => r.status = HTTP_403_FORBIDDEN
    /\ \A a \in Actors :
          /\ IsAuthenticatedOrReadOnly(a, "GET")
          /\ \A p \in posts :
                PostViewSetRetrieve(posts, a, p.id) = [status |-> HTTP_200_OK, body |-> p]
          /\ \A c \in comments :
                CommentViewSetRetrieve(comments, a, c.id, c.parent_comment)
                    = [status |-> HTTP_200_OK, body |-> c]

\* a post was handed to another user by its author, and the first comment,
\* still of user 1, was moved to the other post
C25_Witness ==
    /\ \E p \in posts : p.id = 1 /\ p.author # 1
    /\ \E c \in comments : c.id = 1 /\ c.author = 1 /\ c.post = 2
    /\ \E u \in Users : \E p \in posts : \E c \in comments :
          /\ NotAuthor(p, u) /\ NotAuthor(c, u)
          /\ PostViewSetUpdate(posts, u, p.id, u, TRUE).status = HTTP_403_FORBIDDEN
          /\ CommentViewSetDestroy(comments, u, c.id, c.parent_comment).status
                = HTTP_403_FORBIDDEN

\* C27: the author of a post stays the user who created it: no request
\* changes the author of a post that is there before and after it.
C27_AuthorNeverChanges ==
    [][\A p \in posts : \A q \in posts' : q.id = p.id => q.author = p.author]_vars

\* ------------------------------------------------------------ the book API
BookWrites == {"book.create", "book.update", "book.delete"}

ExploreLists(u) == OrderByCreatedAtDesc(ExploreQuery(follows, posts, u), now)

\* the posts of user b
PostsOf(b) == {p \in posts : p.author = b}

\* the posts the feed, and the explore listing, of u list over the table rows
FeedPosts(rows, u) ==
    UNION {Range(l) : l \in OrderByCreatedAtDesc(FeedQuery(rows, posts, u), now)}

ExplorePosts(rows, u) ==
    UNION {Range(l) : l \in OrderByCreatedAtDesc(ExploreQuery(rows, posts, u), now)}

\* C28: in every reachable state and for every user U, every listing of the
\* feed of U holds the posts of U and of the users U follows, every explore
\* listing of U holds the other posts, each post once, so that every post is
\* in exactly one of the two; a follow of B by U that succeeds moves the posts
\* of B from explore to the feed and an unfollow that succeeds moves them
\* back, every other post staying where it was.
C28_FeedExplorePartition ==
    \A u \in Users :
        /\ \A l \in FeedLists(u) :
              /\ Range(l) = {p \in posts : p.author = u \/ is_following(follows, u, p.author)}
              /\ Len(l) = Cardinality(Range(l))
        /\ \A l \in ExploreLists(u) :
              /\ Range(l) = {p \in posts : p.author # u /\ ~ is_following(follows, u, p.author)}
              /\ Len(l) = Cardinality(Range(l))
        /\ FeedPosts(follows, u) \cup ExplorePosts(follows, u) = posts
        /\ FeedPosts(follows, u) \cap ExplorePosts(follows, u) = {}
        /\ \A b \in Users :
              /\ LET r == FollowUserViewPost(follows, u, b)
                 IN  r.status = HTTP_200_OK =>
                        /\ FeedPosts(r.rows, u) = FeedPosts(follows, u) \cup PostsOf(b)
                        /\ ExplorePosts(r.rows, u) = ExplorePosts(follows, u) \ PostsOf(b)
                        /\ PostsOf(b) \subseteq ExplorePosts(follows, u)
              /\ LET r == UnfollowUserViewPost(follows, u, b)
                 IN  r.status = HTTP_200_OK =>
                        /\ FeedPosts(r.rows, u) = FeedPosts(follows, u) \ PostsOf(b)
                        /\ ExplorePosts(r.rows, u) = ExplorePosts(follows, u) \cup PostsOf(b)
                        /\ PostsOf(b) \subseteq FeedPosts(follows, u)

\* user 1 follows the last user and has the posts of both in the feed, and
\* the last user, who follows nobody, has the post of user 1 in explore
C28_Witness ==
    /\ is_following(follows, 1, NumUsers)
    /\ ~ is_following(follows, NumUsers, 1)
    /\ PostsOf(1) # {} /\ PostsOf(NumUsers) # {}
    /\ FeedPosts(follows, 1) = PostsOf(1) \cup PostsOf(NumUsers)
    /\ ExplorePosts(follows, NumUsers) = PostsOf(1)

\* ------------------------------------------- the two sides of the graph
\* the sum of count[u] over the users of S
RECURSIVE SumOver(_, _)
SumOver(S, count) ==
    IF S = {} THEN 0
    ELSE LET u == CHOOSE x \in S : TRUE
         IN  count[u] + SumOver(S \ {u}, count)

FollowersCountOf(u) == followers_count(follows, u)
FollowingCountOf(u) == following_count(follows, u)

\* C29: in every reachable state, B is among the users A follows exactly when
\* A is among the followers of B, is_following(A, B) equals
\* is_followed_by(B, A), the followers_count of all users add up to what their
\* following_count add up to, and the followers and following lists the
\* views answer are these two sides.
C29_FollowersFollowingDual ==
    /\ \A a \in Users : \A b \in Users :
          /\ (b \in Following(follows, a)) <=> (a \in Followers(follows, b))
          /\ is_following(follows, a, b) = is_followed_by(follows, b, a)
          /\ (b \in UserViewSetFollowing(follows, a).body.users)
                <=> (a \in UserViewSetFollowers(follows, b).body.users)
    /\ SumOver(Users, [u \in Users |-> FollowersCountOf(u)])
          = SumOver(Users, [u \in Users |-> FollowingCountOf(u)])
    /\ (resp.op = "users.followers" /\ resp.status = HTTP_200_OK) =>
          resp.body.users = {a \in Users : is_following(follows, a, resp.arg)}
    /\ (resp.op = "users.following" /\ resp.status = HTTP_200_OK) =>
          resp.body.users = {b \in Users : is_followed_by(follows, b, resp.arg)}

\* the last user follows user 1, not the other way, and user 1 read the list
\* of their followers
C29_Witness ==
    /\ resp.op = "users.followers"
    /\ resp.actor = 1
    /\ resp.arg = 1
    /\ resp.body.users = {NumUsers}
    /\ Following(follows, 1) = {}
    /\ FollowersCountOf(1) = 1
    /\ FollowingCountOf(NumUsers) = 1

\* ------------------------------------------------ the pages of one feed
\* the results a feed request of u for page p with page size s can carry
PageAnswers(u, p, s) ==
    {r.body.results : r \in FeedViewSetList(follows, posts, now, u, p, s)}

\* the number of pages of the feed of u with page size s
PagesOfFeed(u, s) == num_pages(Cardinality(FeedQuery(follows, posts, u)), get_page_size(s))

\* the answers to requests for the pages 1 .. total_pages, one request a page
PageWalks(u, s) ==
    {f \in [1 .. PagesOfFeed(u, s) -> UNION {PageAnswers(u, p, s) : p \in 1 .. PagesOfFeed(u, s)}] :
        \A p \in 1 .. PagesOfFeed(u, s) : f[p] \in PageAnswers(u, p, s)}

\* the results of the first n pages of a walk, one after the other
RECURSIVE Flatten(_, _)
Flatten(f, n) == IF n = 0 THEN << >> ELSE Flatten(f, n - 1) \o f[n]

\* C30: with the posts and the follow table as they are, the pages 1 ..
\* total_pages of the feed of a user, requested one by one with one page size,
\* carry every post of the feed exactly once, posts of one creation time
\* included.
C30_PagesCoverFeedOnce ==
    \A u \in Users : \A s \in 1 .. MaxPosts :
        \A f \in PageWalks(u, s) :
            LET all == Flatten(f, PagesOfFeed(u, s))
            IN  /\ Range(all) = FeedQuery(follows, posts, u)
                /\ Len(all) = Cardinality(FeedQuery(follows, posts, u))

=============================================================================
